---- MODULE Spec2Model ----
(***************************************************************************)
(* Mission orchestration core of the search-and-rescue robot:              *)
(*   - the strict sequential phase pipeline (PipelineRunner.run): ordered  *)
(*     phases, preconditions, retry budget, degraded/ABORT fallback,       *)
(*     force_phase override, phase_log audit trail;                        *)
(*   - the always-on agent's actuation tick: ReflexController override     *)
(*     applied before the policy Decision is dispatched;                   *)
(*   - the RingBuffer of recent frames with get_window and get_keyframes;  *)
(*   - the audio search: rotation sweep, SignalScorer, BearingEstimator.   *)
(* The Python sources (pipeline/engine.py, orchestrator/agent.py,          *)
(* orchestrator/policy.py, perception/frame_store.py,                      *)
(* perception/audio_scanner.py) are described by the repository's          *)
(* documents; what the documents leave open follows the written design.    *)
(***************************************************************************)
EXTENDS Bags, Integers, Sequences, FiniteSets, TLC

(***************************************************************************)
(* Bounds of the model                                                     *)
(***************************************************************************)
\* largest max_attempts tried for the policy of the middle phase of the
\* three-phase lists
MaxAttemptsBound == 2

\* frames pushed into a RingBuffer fed at a variable frame rate
MaxPushes == 4

\* largest k asked of get_keyframes
MaxKeyframes == 4

(***************************************************************************)
(* Phase definitions                                                       *)
(***************************************************************************)
\* MissionContext output fields of the seven pipeline phases
TableFields ==
    {"deploy_status", "person_detected", "person_confidence",
     "approach_confirmed", "debris_status", "triage_answers", "patient_state",
     "report_path", "monitor_active"}

\* fields of the three-phase lists; "missing" is produced by no phase
ListFields == {"g1", "g2", "g3", "missing"}

Fields == TableFields \cup ListFields

\* RetryPolicy(max_attempts, cooldown_s, allow_degraded, fallback_status)
RetryPolicy(ma, cd, ad, fb) ==
    [max_attempts |-> ma, cooldown_s |-> cd, allow_degraded |-> ad,
     fallback_status |-> fb]

\* PhaseDefinition: name, preconditions, outputs, retry policy.  pre is a set
\* of alternatives, each a set of fields that must all be non-empty ("triage
\* or patient data non-empty" has two alternatives; no precondition is {{}}).
\* partial is what a failing handler result may still carry; fallback is
\* what every invocation of the handler delivers even when it fails
\* (REPORT_SEND always saves to disk).
PhaseDefinition(n, pre, out, part, fb, pol) ==
    [name |-> n, pre |-> pre, produces |-> out, partial |-> part,
     fallback |-> fb, retry_policy |-> pol]

\* PIPELINE_PHASES: the seven phases with their entry conditions, success
\* outputs and failure behaviour.  person_confidence is set by SEARCH_HAIL
\* and set again by APPROACH_CONFIRM when it re-detects the person.
PIPELINE_PHASES ==
    << PhaseDefinition("DEPLOY", {{}}, {"deploy_status"}, {"deploy_status"},
                       {}, RetryPolicy(2, 1, TRUE, "DEGRADED")),
       PhaseDefinition("SEARCH_HAIL", {{"deploy_status"}},
                       {"person_detected", "person_confidence"},
                       {}, {}, RetryPolicy(5, 2, FALSE, "ABORT")),
       PhaseDefinition("APPROACH_CONFIRM", {{"person_detected"}},
                       {"approach_confirmed", "person_confidence"}, {},
                       {}, RetryPolicy(3, 2, FALSE, "ABORT")),
       PhaseDefinition("DEBRIS_CLEAR", {{"approach_confirmed"}},
                       {"debris_status"}, {"debris_status"},
                       {}, RetryPolicy(2, 1, TRUE, "DEGRADED")),
       PhaseDefinition("TRIAGE_DIALOG_SCAN", {{"approach_confirmed"}},
                       {"triage_answers", "patient_state"}, {"triage_answers"},
                       {}, RetryPolicy(2, 2, TRUE, "DEGRADED")),
       PhaseDefinition("REPORT_SEND", {{"triage_answers"}, {"patient_state"}},
                       {"report_path"}, {"report_path"},
                       {"report_path"}, RetryPolicy(3, 3, TRUE, "DEGRADED")),
       PhaseDefinition("MONITOR_WAIT", {{"report_path"}}, {"monitor_active"},
                       {}, {}, RetryPolicy(1, 0, FALSE, "ABORT")) >>

\* what a RetryPolicy may name as fallback_status
FallbackStatuses == {"ABORT", "DEGRADED"}

\* preconditions tried for the middle phase of a three-phase list: none, the
\* first phase's output, a field nobody produces, the last phase's output
MiddlePreconditions == {{{}}, {{"g1"}}, {{"missing"}}, {{"g3"}}}

\* a three-phase list around a middle phase with the given precondition and
\* retry policy
ThreePhases(pre, pol) ==
    << PhaseDefinition("P1", {{}}, {"g1"}, {"g1"},
                       {}, RetryPolicy(1, 1, TRUE, "DEGRADED")),
       PhaseDefinition("P2", pre, {"g2"}, {"g2"}, {}, pol),
       PhaseDefinition("P3", {{"g1"}}, {"g3"}, {},
                       {}, RetryPolicy(1, 0, FALSE, "ABORT")) >>

\* the phase lists the engine is run on
PhaseLists ==
    {PIPELINE_PHASES} \cup
    { ThreePhases(pre, RetryPolicy(ma, 1, ad, fb)) :
        pre \in MiddlePreconditions, ma \in 1..MaxAttemptsBound,
        ad \in BOOLEAN, fb \in FallbackStatuses }

(***************************************************************************)
(* Handler outcomes                                                        *)
(***************************************************************************)
\* PhaseResult.status
PhaseStatus == {"SUCCESS", "RETRY", "DEGRADED", "ABORT"}

\* what one handler invocation can do other than return SUCCESS: return a
\* PhaseResult with another status (with or without partial outputs), raise,
\* or time out
HandlerFaults ==
    { [kind |-> "result", status |-> "RETRY", partial |-> FALSE],
      [kind |-> "result", status |-> "RETRY", partial |-> TRUE],
      [kind |-> "result", status |-> "DEGRADED", partial |-> TRUE],
      [kind |-> "result", status |-> "ABORT", partial |-> FALSE],
      [kind |-> "exception", status |-> "NONE", partial |-> FALSE],
      [kind |-> "timeout", status |-> "NONE", partial |-> FALSE] }

\* the failure modes the handlers of one run exhibit: any mix on the short
\* lists, one mode per run on the seven-phase pipeline
FaultProfiles(pl) ==
    IF pl = PIPELINE_PHASES THEN { {f} : f \in HandlerFaults }
                            ELSE { HandlerFaults }

\* duration of one handler invocation, and of one that times out
HandlerElapsed == 1
HandlerTimeout == 3

(***************************************************************************)
(* State                                                                   *)
(***************************************************************************)
VARIABLES
    phases,               \* PipelineRunner._phases
    force_phase,          \* --force_phase target index, 0 when absent
    handler_faults,       \* failure modes of this run's handlers
    ctx,                  \* MissionContext outputs: field -> writer index, 0 empty
    phase_log,            \* MissionContext.phase_log
    current_phase_index,  \* MissionContext.current_phase_index (1-based)
    attempt,              \* attempts made so far for the current phase
    phase_status,         \* resolved outcome per phase
    handler_calls,        \* handler invocations per phase
    attempts_total,       \* attempts made per phase over the whole run
    engine,               \* "running", "done", "halted", "crashed"
    clock,                \* seconds since mission start
    latest_observation,   \* LatestFrameStore: the latest Observation
    decision,             \* the Decision of the last policy tick
    last_dispatch,        \* what the last actuation tick saw and sent
    ring_config,          \* RingBuffer max_seconds, fps_sample
    ring_now,             \* wall clock of the perception task, in ticks
    ring_buffer,          \* RingBuffer entries, oldest first
    ring_pushes,          \* frames pushed so far
    last_read,            \* the last get_window / get_keyframes call
    sweep_audio,          \* what the microphone hears at each heading
    search_state,         \* SearchController sub-state
    sweep,                \* BearingSweep recorded so far
    estimate,             \* BearingEstimator result for the sweep
    search_report,        \* what SearchController reported
    nav_target,           \* heading the robot was told to rotate toward
    exec_plan,            \* the Decision handed to the executor
    exec_decision,        \* the Decision the executor acts on
    exec_wait_s,          \* duration of the wait it acts on, 0 when none
    exec_events,          \* events the executor logged
    exec_sent,            \* actions the executor dispatched
    exec_state,           \* "idle", "validated", "raised"
    policy_mode,          \* SharedState: the mode the policy is in
    scene,                \* what the latest Observation shows of the person
    loop_decision,        \* SharedState: the Decision of the last policy tick
    conversation,         \* conversation state of the triage question
    wait_left,            \* seconds left of the wait for a response
    last_sent,            \* the last command sent to the robot or audio output
    stop_signal,          \* SIGINT/SIGTERM received
    exited,               \* tasks that have left their loop
    process,              \* "running", "exited"
    fs_frame,             \* LatestFrameStore: the latest frame
    fs_obs,               \* LatestFrameStore: the latest Observation
    fs_lock,              \* LatestFrameStore: who holds its lock
    perception_pc,        \* where perception_task is in its tick
    obs_commits,          \* completed update(frame, obs) calls
    shared_decision,      \* SharedState: the Decision the policy set last
    fs_entries,           \* RingBuffer entries pushed by perception_task
    got,                  \* what the last get_latest() returned
    read_entry,           \* the RingBuffer entry a reader fetched last
    telemetry,            \* the last telemetry payload
    handlers_running,     \* phase handlers that have been called and not returned
    bridge_up,            \* the robot bridge answers
    sink_up,              \* the command center answers
    io_failures,          \* failed posts to the command center that were logged
    snapshot,             \* context_snapshot.json, once written
    run_no,               \* 1 for the first run, 2 for the run resumed from it
    event_k,              \* EventManager: keyframes per event
    event_strategy,       \* EventManager: keyframe selection strategy
    found_person_emitted, \* perception_task: FOUND_PERSON was emitted
    confident_frames,     \* frames with a confident person detection so far
    events_emitted,       \* events emitted so far, per type
    last_event,           \* the last emitted event and what it persisted
    operator_messages,    \* command center: _operator_messages
    next_index,           \* command center: index given to the next message
    op_pc,                \* _operator_message_loop: "poll", "speak", "ack"
    op_pending,           \* _operator_message_loop: fetched, not yet spoken
    op_after_index,       \* _operator_message_loop: index of the last one spoken
    op_spoken,            \* indices the robot has spoken, in order
    op_late,              \* history: indices posted between a GET and its ack
    server_comms,         \* command center: _comms, operator entries
    server_report,        \* command center: the report /latest returns
    in_flight,            \* CommandCenterPage: bag of fetchLatest() calls not yet settled
    latest,               \* CommandCenterPage: latest
    lastReport,           \* CommandCenterPage: lastReport
    optimisticMsgs,       \* CommandCenterPage: optimisticMsgs
    loading,              \* CommandCenterPage: loading
    post,                 \* handleSend: the postOperatorMessage call
    sends                 \* messages sent from the page so far

pipelineVars == << phases, force_phase, handler_faults, ctx, phase_log,
                   current_phase_index, attempt, phase_status, handler_calls,
                   attempts_total, engine, clock >>

agentVars == << latest_observation, decision, last_dispatch >>

ringVars == << ring_config, ring_now, ring_buffer, ring_pushes, last_read >>

searchVars == << sweep_audio, search_state, sweep, estimate, search_report,
                 nav_target >>

executorVars == << exec_plan, exec_decision, exec_wait_s, exec_events,
                   exec_sent, exec_state >>

loopVars == << policy_mode, scene, loop_decision, conversation, wait_left,
               last_sent, stop_signal, exited, process >>

storeVars == << fs_frame, fs_obs, fs_lock, perception_pc, obs_commits,
                shared_decision, fs_entries, got, read_entry, telemetry >>

missionVars == << handlers_running, bridge_up, sink_up, io_failures >>

resumeVars == << snapshot, run_no >>

eventVars == << event_k, event_strategy, found_person_emitted,
                confident_frames, events_emitted, last_event >>

queueVars == << operator_messages, next_index, op_pc, op_pending,
               op_after_index, op_spoken, op_late >>

pageVars == << server_comms, server_report, in_flight, latest, lastReport,
              optimisticMsgs, loading, post, sends >>

centerVars == << queueVars, pageVars >>

serviceVars == << resumeVars, eventVars, centerVars >>

orchestratorVars == << executorVars, loopVars, storeVars, missionVars,
                      serviceVars >>

coreVars == << pipelineVars, agentVars, ringVars, searchVars >>

vars == << coreVars, orchestratorVars >>

(***************************************************************************)
(* Observation, Decision, ReflexController                                 *)
(***************************************************************************)
\* obstacle_distance_m is optional; distances in tenths of a metre
NoReading == -1
ObstacleThreshold == 5      \* 0.5 m
OffsetThreshold == 3        \* 0.3, offsets in tenths

ObstacleReadings == {NoReading, 4, 5}
CenterOffsets == {-4, -3, 0, 3, 4}

Observations ==
    [obstacle_distance_m : ObstacleReadings,
     num_persons : {0, 1},
     primary_person_center_offset : CenterOffsets]

\* before the first perception tick: nobody seen, no obstacle reading
NoObservation ==
    [obstacle_distance_m |-> NoReading, num_persons |-> 0,
     primary_person_center_offset |-> 0]

Action == {"STOP", "ROTATE_LEFT", "ROTATE_RIGHT", "FORWARD_SLOW", "BACK_UP",
           "WAIT", "ASK", "SAY"}

\* a Decision as the policy returns it: ask speaks and waits for a reply,
\* say speaks only
Decision(a) ==
    [action |-> a,
     say |-> IF a \in {"ASK", "SAY"} THEN "text" ELSE "",
     wait_for_response_s |-> IF a = "ASK" THEN 5 ELSE 0]

Abs(x) == IF x < 0 THEN -x ELSE x

\* variant: rotates on the offset whether or not a person is in the frame
ReflexController_OffsetOnly(obs) ==
    IF /\ obs.obstacle_distance_m # NoReading
       /\ obs.obstacle_distance_m < ObstacleThreshold
    THEN "STOP"
    ELSE IF Abs(obs.primary_person_center_offset) > OffsetThreshold
         THEN IF obs.primary_person_center_offset < 0 THEN "ROTATE_LEFT"
                                                      ELSE "ROTATE_RIGHT"
         ELSE "NONE"

\* ReflexController: STOP if obstacle too close, rotate to center the person
\* if the offset is beyond the threshold, else no override
ReflexController(obs) ==
    IF /\ obs.obstacle_distance_m # NoReading
       /\ obs.obstacle_distance_m < ObstacleThreshold
    THEN "STOP"
    ELSE IF obs.num_persons > 0
            /\ Abs(obs.primary_person_center_offset) > OffsetThreshold
         THEN IF obs.primary_person_center_offset < 0 THEN "ROTATE_LEFT"
                                                      ELSE "ROTATE_RIGHT"
         ELSE "NONE"

\* variant: speech decisions go to the audio output before the override is
\* looked at
DispatchedAction_SpeechFirst(override, d) ==
    IF d.action \in {"ASK", "SAY"} THEN d.action
    ELSE IF override # "NONE" THEN override ELSE d.action

\* the action an actuation tick sends: the reflex override when there is
\* one, else the policy's action
DispatchedAction(override, d) ==
    IF override # "NONE" THEN override ELSE d.action

(***************************************************************************)
(* Planner output and its validation by the executor                       *)
(***************************************************************************)
\* what the planner may hand over: the eight well-formed Decisions, and the
\* ASK and SAY Decisions that break the contract
MalformedDecisions ==
    { [action |-> "ASK", say |-> "",     wait_for_response_s |-> 5],
      [action |-> "ASK", say |-> "text", wait_for_response_s |-> 0],
      [action |-> "ASK", say |-> "",     wait_for_response_s |-> 0],
      [action |-> "SAY", say |-> "",     wait_for_response_s |-> 0],
      [action |-> "SAY", say |-> "text", wait_for_response_s |-> 5],
      [action |-> "SAY", say |-> "",     wait_for_response_s |-> 5] }

PlannerOutputs == { Decision(a) : a \in Action } \cup MalformedDecisions

\* the Decision contract: ASK needs text and a wait, SAY needs text and no
\* wait (an absent wait_for_response_s is 0)
WellFormed(d) ==
    /\ d.action = "ASK" => (d.say # "" /\ d.wait_for_response_s > 0)
    /\ d.action = "SAY" => (d.say # "" /\ d.wait_for_response_s = 0)

\* the duration of the substituted wait, wait(1.0)
FallbackWaitSeconds == 1

Validated(d, wait_s, violation) ==
    [decision |-> d, wait_s |-> wait_s, violation |-> violation]

\* variant: only the text is checked
validate_plan_TextOnly(d) ==
    IF d.action \in {"ASK", "SAY"} /\ d.say = ""
    THEN Validated(Decision("WAIT"), FallbackWaitSeconds, TRUE)
    ELSE Validated(d, 0, FALSE)

\* validate_plan: a Decision that breaks the contract is replaced by
\* wait(1.0) and reported, any other is passed on as it is
validate_plan(d) ==
    IF WellFormed(d) THEN Validated(d, 0, FALSE)
    ELSE Validated(Decision("WAIT"), FallbackWaitSeconds, TRUE)

\* dispatch_action: speaking needs text, listening needs a timeout, and a
\* statement is not listened after; anything else is a call the audio
\* output cannot make
DispatchRaises(d) == ~WellFormed(d)

NoPlan == [action |-> "none"]

\* plans one executor run takes
MaxPlans == 2

(***************************************************************************)
(* The agent loop: tasks, policy modes, the wait for a response            *)
(***************************************************************************)
Tasks == {"perception", "audio", "policy", "actuation", "telemetry"}

Modes == {"SEARCH", "APPROACH", "ASSESS", "REPORT"}

\* what the policy reads off the latest Observation: nobody detected, a
\* person detected, a person at standoff distance
Scenes == {"nobody", "person", "standoff"}

\* variant: the policy returns to SEARCH when the person is lost on approach
NextMode_PersonLost(m, sc, conv) ==
    IF m = "SEARCH" THEN (IF sc # "nobody" THEN "APPROACH" ELSE "SEARCH")
    ELSE IF m = "APPROACH"
         THEN (IF sc = "standoff" THEN "ASSESS"
               ELSE IF sc = "nobody" THEN "SEARCH" ELSE "APPROACH")
    ELSE IF m = "ASSESS"
         THEN (IF conv \in {"reply", "timeout"} THEN "REPORT" ELSE "ASSESS")
    ELSE "REPORT"

\* the mode rules of the policy: SEARCH until a person is detected,
\* APPROACH until close enough, ASSESS until the question was asked and the
\* wait for the response is over, then REPORT
NextMode(m, sc, conv) ==
    IF m = "SEARCH" THEN (IF sc # "nobody" THEN "APPROACH" ELSE "SEARCH")
    ELSE IF m = "APPROACH" THEN (IF sc = "standoff" THEN "ASSESS" ELSE "APPROACH")
    ELSE IF m = "ASSESS"
         THEN (IF conv \in {"reply", "timeout"} THEN "REPORT" ELSE "ASSESS")
    ELSE "REPORT"

\* the actions the policy chooses from in a mode; in ASSESS the triage
\* question first, then anything but a second question
PolicyActions(m, conv) ==
    IF m = "SEARCH" THEN {"ROTATE_LEFT", "FORWARD_SLOW", "WAIT"}
    ELSE IF m = "APPROACH" THEN {"ROTATE_LEFT", "ROTATE_RIGHT", "FORWARD_SLOW"}
    ELSE IF m = "ASSESS"
         THEN (IF conv = "not_asked" THEN {"ASK"}
               ELSE {"WAIT", "FORWARD_SLOW", "SAY"})
    ELSE {"STOP", "SAY"}

\* variant: actuation goes on while the response is awaited
Suspended_Never(conv) == FALSE

\* actuation is suspended while audio_task listens for the response
Suspended(conv) == conv = "waiting"

MotionActions == {"ROTATE_LEFT", "ROTATE_RIGHT", "FORWARD_SLOW", "BACK_UP"}

Sent(a, origin, listening) ==
    [action |-> a, origin |-> origin, listening |-> listening]

NothingSent == Sent("none", "none", FALSE)

\* the Observations that go with a scene
SceneObservations(sc) ==
    { obs \in Observations : (obs.num_persons = 0) <=> (sc = "nobody") }

(***************************************************************************)
(* LatestFrameStore and the readers of what perception and policy publish  *)
(***************************************************************************)
\* frames and Decisions are told apart by their number: the n-th frame, its
\* Observation and its RingBuffer entry all carry n
MaxCommits == 2

\* variant: get_latest does not take the lock
Readable_Unlocked(lock) == TRUE

\* Thread-safe: a reader gets in only while no update holds the lock
Readable(lock) == lock = "free"

NothingRead == [of |-> "nothing"]

(***************************************************************************)
(* RingBuffer: rolling store of (timestamp, jpeg_bytes, observation        *)
(* summary), and keyframe selection                                        *)
(***************************************************************************)
\* timestamps are in ticks of half a second
TicksPerSecond == 2

RingConfig(ms, fps) == [max_seconds |-> ms, fps_sample |-> fps]

\* --ring-seconds 10 --ring-fps 2
DefaultRingConfig == RingConfig(10, 2)

\* a short buffer fed at a variable frame rate: 3 s at 1 frame per second
SmallRingConfig == RingConfig(3, 1)

RingConfigs == {DefaultRingConfig, SmallRingConfig}

\* 10 s window at 2 FPS = 20 frames
MaxEntries(cfg) == cfg.max_seconds * cfg.fps_sample

WindowTicks(seconds) == seconds * TicksPerSecond

\* ticks between two frames at the sample rate
SamplePeriod(cfg) == TicksPerSecond \div cfg.fps_sample

\* frames pushed in the steady scenario: 30 frames, one per sample period
ScenarioFrames == 30

\* ticks between two pushes at a variable frame rate: twice the sample rate
\* of SmallRingConfig, the sample rate, and a stall longer than the window
VariableGaps == {1, 2, 7}

\* observation_summary.confidence, in tenths
Confidences == {3, 9}

\* confidence of the n-th frame of the steady scenario
ScenarioConfidence(n) == IF n % 3 = 0 THEN 9 ELSE 3

FrameGaps(cfg) ==
    IF cfg = DefaultRingConfig THEN {SamplePeriod(cfg)} ELSE VariableGaps

FrameConfidences(cfg, n) ==
    IF cfg = DefaultRingConfig THEN {ScenarioConfidence(n)} ELSE Confidences

PushLimit(cfg) == IF cfg = DefaultRingConfig THEN ScenarioFrames ELSE MaxPushes

\* one entry; jpeg_bytes stands for the compressed frame, identified by the
\* number of the push that stored it
RingEntry(ts, frame, conf) ==
    [timestamp |-> ts, jpeg_bytes |-> frame,
     observation_summary |-> [confidence |-> conf]]

\* variant: nothing is evicted by age
EvictOlder_Never(buf, now, cfg) == buf

\* evict entries older than max_seconds
EvictOlder(buf, now, cfg) ==
    SelectSeq(buf, LAMBDA e : now - e.timestamp <= WindowTicks(cfg.max_seconds))

\* variant: no bound on the number of entries
DropOldest_Never(buf, cap) == buf

\* bounded by max_seconds x fps_sample entries, oldest evicted first
DropOldest(buf, cap) ==
    IF Len(buf) > cap THEN SubSeq(buf, Len(buf) - cap + 1, Len(buf)) ELSE buf

\* RingBuffer.push: append the entry, evict what is older than max_seconds,
\* keep at most max_seconds x fps_sample entries
push(buf, e, now, cfg) ==
    DropOldest(EvictOlder(Append(buf, e), now, cfg), MaxEntries(cfg))

Reversed(q) == [i \in 1..Len(q) |-> q[Len(q) + 1 - i]]

\* variant: most recent entry first
get_window_NewestFirst(buf, now, seconds_back) ==
    Reversed(SelectSeq(buf,
        LAMBDA e : e.timestamp >= now - WindowTicks(seconds_back)))

\* RingBuffer.get_window(seconds_back): the entries of the trailing window,
\* oldest first
get_window(buf, now, seconds_back) ==
    SelectSeq(buf, LAMBDA e : e.timestamp >= now - WindowTicks(seconds_back))

\* get_keyframes reads the last 10 s of frames
KeyframeWindowSeconds == 10

Strategies == {"spread", "confidence"}

\* variant: every (n div k)-th entry from the oldest on
LinspaceIndex_Stride(n, k, i) == i * (n \div k)

\* np.linspace(0, n-1, k, dtype=int)[i], 0-based: the k values from 0 to n-1
\* in equal steps, rounded down.  For the windows that occur here (at most 20
\* entries) the floating-point value i * ((n-1)/(k-1)) rounds down to the
\* same integer as the exact quotient.
LinspaceIndex(n, k, i) ==
    IF k = 1 THEN 0 ELSE (i * (n - 1)) \div (k - 1)

ConfidenceOf(e) == e.observation_summary.confidence

MaxConfidence(window) ==
    CHOOSE c \in { ConfidenceOf(window[i]) : i \in 1..Len(window) } :
        \A i \in 1..Len(window) : ConfidenceOf(window[i]) <= c

\* sorted(window, key=confidence, reverse=True): higher confidence first;
\* the sort is stable, entries of equal confidence keep their window order
\* (oldest first)
RECURSIVE SortedByConfidence(_)
SortedByConfidence(window) ==
    IF window = << >> THEN << >>
    ELSE LET top == MaxConfidence(window)
         IN  SelectSeq(window, LAMBDA e : ConfidenceOf(e) = top)
               \o SortedByConfidence(
                     SelectSeq(window, LAMBDA e : ConfidenceOf(e) < top))

\* what a get_keyframes call hands back: the frames, or the exception raised
Returned(frames) == [raised |-> "none", frames |-> frames]
Raises(exception) == [raised |-> exception, frames |-> << >>]

\* get_keyframes(k, strategy) on the window of the last 10 s
get_keyframes(window, k, strategy) ==
    LET n == Len(window) IN
    IF strategy = "spread"
    THEN IF k = 0 THEN Returned(<< >>)
         ELSE IF \E i \in 0..(k - 1) : LinspaceIndex(n, k, i) \notin 0..(n - 1)
              THEN Raises("IndexError")
              ELSE Returned([i \in 1..k |->
                                window[LinspaceIndex(n, k, i - 1) + 1]])
    ELSE Returned(SubSeq(SortedByConfidence(window), 1,
                         IF k < n THEN k ELSE n))

\* no read made yet
NoRead == [op |-> "none"]

(***************************************************************************)
(* EventManager                                                            *)
(***************************************************************************)
EventType == {"FOUND_PERSON", "HEARD_RESPONSE", "POSSIBLE_INJURY",
              "OPERATOR_REQUEST", "HEARTBEAT"}

\* get_keyframes(k=3, strategy="spread"); 1 to 5 keyframes per event
DefaultKeyframes == 3
MaxKeyframesPerEvent == 5

KeyframeCounts == {1, DefaultKeyframes, MaxKeyframesPerEvent}

\* a person detection counts as confident from 0.5, in tenths
PersonConfidence == 5

NoEvent == [event_type |-> "none"]

\* variant: every frame of the window is saved
Keyframes_WholeWindow(window, k, strategy) == Returned(window)

\* emit: keyframes = RingBuffer.get_keyframes(k, strategy)
Keyframes(window, k, strategy) == get_keyframes(window, k, strategy)

\* EventManager.emit(event_type, meta): the keyframes are saved to
\* data/snapshots and posted; when get_keyframes raises nothing is saved
Emitted(event_type, window, k, strategy) ==
    LET got_frames == Keyframes(window, k, strategy)
    IN  [event_type |-> event_type,
         k          |-> k,
         raised     |-> got_frames.raised,
         saved      |-> got_frames.frames]

\* variant: FOUND_PERSON on every confident detection
FirstConfident_Every(conf, already) == conf >= PersonConfidence

\* perception_task: emit FOUND_PERSON once when first confident person
FirstConfident(conf, already) == conf >= PersonConfidence /\ ~already

\* ---------------------------------------------------------------------
\* Command center: the operator message queue
\* ---------------------------------------------------------------------

OperatorTexts == {"Tell them help is on the way", "Stay where you are"}

NoIndex == -1

\* POST /operator-message: the entry appended to _operator_messages
OperatorMessage(text, index) == [text |-> text, index |-> index]

\* variant: the acknowledgement empties the queue
AckCleared_All(queue, after_index) == << >>

\* POST /operator-messages/ack { after_index }: clear messages up to index
AckCleared(queue, after_index) ==
    SelectSeq(queue, LAMBDA m : m.index > after_index)

Indices(queue) == {queue[i].index : i \in 1..Len(queue)}

\* ---------------------------------------------------------------------
\* Command center page (webapp)
\* ---------------------------------------------------------------------

\* Chat.tsx QUICK_REPLIES, two of them
QuickReplies == {"Help is on the way", "Stay calm"}

\* report: null
NoReport == 0

\* latest: null, also what a fetchLatest() that throws leaves behind
NoLatest == [ok |-> FALSE, report |-> NoReport, comms |-> << >>]

\* LatestResponse of GET /latest
LatestResponse(report, comms) ==
    [ok |-> TRUE, report |-> report, comms |-> comms]

NoPost == [state |-> "none", text |-> "", send |-> 0]

\* server comms entry; send names the page's send that produced it
CommsEntry(role, text, send) == [role |-> role, text |-> text, send |-> send]

\* CommsMessage in the chat
CommsMessage(type, text, send) == [type |-> type, text |-> text, send |-> send]

roleToType(r) ==
    IF r = "victim" THEN "v"
    ELSE IF r = "robot" THEN "h"
    ELSE IF r = "operator" THEN "op"
    ELSE "h"

commsToMessages(comms) ==
    [i \in 1..Len(comms) |->
        CommsMessage(roleToType(comms[i].role), comms[i].text, comms[i].send)]

Placeholder == CommsMessage("sys", "Comms connected", 0)

\* useMemo msgs: server messages, then the optimistic ones
msgs ==
    LET fromServer == commsToMessages(latest.comms)
        combined == fromServer \o optimisticMsgs
    IN  IF Len(combined) = 0 THEN << Placeholder >> ELSE combined

\* variant: the report follows every response
NextLastReport_Always(prev, data) == data.report

\* tick: if (data.report) setLastReport(data.report)
NextLastReport(prev, data) ==
    IF data.report # NoReport THEN data.report ELSE prev

\* tick: serverTexts = new Set(data.comms.map(c => c.text));
\*       prev.filter(p => !serverTexts.has(p.text))
Reconciled(prev, data) ==
    IF Len(prev) = 0 THEN prev
    ELSE LET serverTexts == {data.comms[i].text : i \in 1..Len(data.comms)}
         IN  SelectSeq(prev, LAMBDA p : p.text \notin serverTexts)

\* handleSend catch: prev.filter(m => m.text !== text || m.type !== 'op'),
\* then the "Send failed" system message
SendFailed(prev, text, send) ==
    Append(SelectSeq(prev, LAMBDA m : m.text # text \/ m.type # "op"),
           CommsMessage("sys", "Send failed", send))

\* InjuryReport medical={lastReport ? ... : null}
DisplayedReport == lastReport

One(data) == SetToBag({data})

(***************************************************************************)
(* Audio search: rotation sweep, SignalScorer, BearingEstimator            *)
(***************************************************************************)
\* rms_energy and voice_activity_score are in thousandths; what a window
\* can hold: silence from a dead microphone, low and higher background
\* noise without voice, and voice at two loudness levels.  A window without
\* energy has no voice activity.
AudioWindows ==
    { [rms_energy |-> 0,   voice_activity_score |-> 0],
      [rms_energy |-> 20,  voice_activity_score |-> 0],
      [rms_energy |-> 60,  voice_activity_score |-> 300],
      [rms_energy |-> 60,  voice_activity_score |-> 900],
      [rms_energy |-> 300, voice_activity_score |-> 900] }

Silence == [rms_energy |-> 0, voice_activity_score |-> 0]

\* flat low energy without voice, and a window with a voice-activity spike
LowEnergyWindows ==
    { [rms_energy |-> 20, voice_activity_score |-> 0],
      [rms_energy |-> 60, voice_activity_score |-> 0] }

SpikeWindows ==
    { [rms_energy |-> 20, voice_activity_score |-> 900],
      [rms_energy |-> 60, voice_activity_score |-> 1000] }

\* a full rotation in 30 degree steps, and one in 90 degree steps
FineHeadings == 12
CoarseHeadings == 4

StepDeg(n) == 360 \div n

\* a sweep that is flat except for one heading
SpikeSweep(n, at, low, spike) == [i \in 1..n |-> IF i = at THEN spike ELSE low]

\* the sound fields the robot is put in: every mix of windows over four
\* headings, and over twelve headings a dead microphone and a single spike
\* (ahead, behind at 180 degrees, at the last heading) over a flat floor
SoundFields ==
    [1..CoarseHeadings -> AudioWindows]
      \cup { [i \in 1..FineHeadings |-> Silence] }
      \cup { SpikeSweep(FineHeadings, at, low, spike) :
                at \in {1, 7, 12}, low \in LowEnergyWindows,
                spike \in SpikeWindows }

\* weights of the composite score, in tenths
EnergyWeight == 4
VoiceWeight == 6

\* variant: the larger of the two weighted inputs
CompositeScore_Larger(rms, vad) ==
    IF EnergyWeight * rms > VoiceWeight * vad THEN EnergyWeight * rms
                                              ELSE VoiceWeight * vad

\* SignalScorer: composite of loudness and voice likelihood, a weighted sum
CompositeScore(rms, vad) == EnergyWeight * rms + VoiceWeight * vad

BearingSample(heading, w) ==
    [heading_deg |-> heading,
     rms_energy |-> w.rms_energy,
     voice_activity_score |-> w.voice_activity_score,
     composite_score |-> CompositeScore(w.rms_energy, w.voice_activity_score)]

\* moving average over a heading and its two neighbours
SmoothingWindow == 3

\* index of the heading `off` steps from heading i, wrapping around
Wrap(i, off, n) == ((i - 1 + off + n) % n) + 1

\* smoothed composite score of heading i: the circular moving average, kept
\* as the sum over the window (the average times SmoothingWindow)
Smoothed(sw, i) ==
    sw[Wrap(i, -1, Len(sw))].composite_score
      + sw[i].composite_score
      + sw[Wrap(i, 1, Len(sw))].composite_score

RECURSIVE SumOver(_, _)
SumOver(q, n) == IF n = 0 THEN 0 ELSE q[n] + SumOver(q, n - 1)

\* variant: of tied headings the last one in sweep order
ArgMax_Last(q) ==
    CHOOSE i \in 1..Len(q) :
        /\ \A j \in 1..Len(q) : q[j] <= q[i]
        /\ \A j \in 1..Len(q) : j > i => q[j] < q[i]

\* index of the maximum, the earliest one when several tie
ArgMax(q) ==
    CHOOSE i \in 1..Len(q) :
        /\ \A j \in 1..Len(q) : q[j] <= q[i]
        /\ \A j \in 1..Len(q) : j < i => q[j] < q[i]

\* epsilon of the confidence formula, in units of the composite score
Epsilon == 1

\* confidence is kept in thousandths
ConfidenceScale == 1000

Clamp(x, lo, hi) == IF x < lo THEN lo ELSE IF x > hi THEN hi ELSE x

\* (peak - mean) / (peak + epsilon), clamped to [0, 1]; peak and total are
\* sums over the smoothing window, n the number of headings
Confidence(peak, total, n) ==
    Clamp((ConfidenceScale * (n * peak - total))
              \div (n * (peak + SmoothingWindow * Epsilon)),
          0, ConfidenceScale)

\* dead microphone: no sample of the sweep has any energy
AllZeroEnergy(sw) == \A i \in 1..Len(sw) : sw[i].rms_energy = 0

\* BearingEstimator: smooth, take the heading of the maximum, derive the
\* confidence from how far the peak stands out above the mean
BearingEstimator(sw) ==
    LET n        == Len(sw)
        smoothed == [i \in 1..n |-> Smoothed(sw, i)]
        best     == ArgMax(smoothed)
    IN  [heading_deg |-> sw[best].heading_deg,
         index |-> best,
         confidence |-> Confidence(smoothed[best], SumOver(smoothed, n), n),
         sensor_degraded |-> AllZeroEnergy(sw)]

\* minimum voice-activity score for a window to count as voice
MinVoiceActivity == 500

\* variant: any sound at all counts as voice
VoiceDetected_AnyEnergy(sw) ==
    \E i \in 1..Len(sw) : sw[i].rms_energy > 0

VoiceDetected(sw) ==
    \E i \in 1..Len(sw) : sw[i].voice_activity_score > MinVoiceActivity

\* variant: the voice-activity check comes first, a dead microphone is
\* reported as no voice
SearchOutcome_VoiceFirst(sw, est) ==
    IF ~VoiceDetected(sw) THEN "no_voice_detected"
    ELSE IF est.sensor_degraded THEN "sensor_degraded"
    ELSE "bearing"

\* what SearchController makes of a finished sweep: a sweep without energy
\* is a degraded sensor, a sweep without voice activity is "no voice
\* detected", otherwise the estimate is a bearing to navigate to
SearchOutcome(sw, est) ==
    IF est.sensor_degraded THEN "sensor_degraded"
    ELSE IF ~VoiceDetected(sw) THEN "no_voice_detected"
    ELSE "bearing"

NoEstimate == [index |-> 0]
NoTarget == -1

NumPhases == Len(phases)

\* MissionContext at mission start: no output set
EmptyContext == [f \in Fields |-> 0]

\* MissionContext restored from a snapshot for --force_phase target: the
\* outputs of the phases before the target are present, each as its last
\* writer left it
RestoredContext(pl, target) ==
    [f \in Fields |->
        LET writers == { i \in 1..Len(pl) : i < target /\ f \in pl[i].produces }
        IN  IF writers = {} THEN 0
            ELSE CHOOSE i \in writers : \A j \in writers : j <= i]

(***************************************************************************)
(* context_snapshot.json                                                   *)
(***************************************************************************)
NoSnapshot == [written |-> FALSE]

\* the MissionContext written as JSON: the outputs that are set, with their
\* values, and the status each phase has in the bookkeeping
Serialize(c, statuses) ==
    [written |-> TRUE,
     outputs |-> { << f, c[f] >> : f \in { g \in Fields : c[g] # 0 } },
     status  |-> statuses]

\* variant: the run is started with --force_phase without loading the file
Restore_NotLoaded(s) == EmptyContext

\* the MissionContext built from the file: every output of the file, the
\* rest empty
Restore(s) ==
    [f \in Fields |->
        IF \E pair \in s.outputs : pair[1] = f
        THEN (CHOOSE pair \in s.outputs : pair[1] = f)[2]
        ELSE 0]

(***************************************************************************)
(* Engine helpers                                                          *)
(***************************************************************************)
\* variant: the precondition check is left out
PreconditionsMet_Unchecked(c, p) == TRUE

\* every required field present and non-empty in ctx
PreconditionsMet(c, p) ==
    \E alt \in p.pre : \A f \in alt : c[f] # 0

\* merge a result's outputs into ctx
MergeOutputs(c, outputs, writer) ==
    [f \in Fields |-> IF f \in outputs THEN writer ELSE c[f]]

\* variant: the outputs of a failed attempt are merged at once
AfterFailedAttempt_Merged(c, outputs, writer) == MergeOutputs(c, outputs, writer)

\* ctx after a failed attempt that leaves attempts: the result's outputs are
\* dropped
AfterFailedAttempt(c, outputs, writer) == c

\* variant: the target phase itself is skipped as well
IsSkipped_Inclusive(idx, force) == force # 0 /\ idx <= force

\* --force_phase X marks all phases before X as SKIPPED
IsSkipped(idx, force) == force # 0 /\ idx < force

\* variant: a handler hands over to a phase of its choice (1, 3, 2, 4, ...)
NextPhaseIndex_Jump(idx) ==
    CASE idx = 1 -> 3
      [] idx = 3 -> 2
      [] idx = 2 -> 4
      [] OTHER   -> idx + 1

\* the for loop over the phase list: the next phase is the next list element
NextPhaseIndex(idx) == idx + 1

\* variant: allow_degraded is ignored, the fallback status always applies
OnExhaustion_FallbackOnly(pol) == pol.fallback_status

\* outcome of a phase whose attempts ran out
OnExhaustion(pol) ==
    IF pol.allow_degraded THEN "DEGRADED" ELSE pol.fallback_status

\* variant: the loop goes on whatever the policy
ProceedsAfterExhaustion_Always(pol) == TRUE

\* whether the loop goes on after a phase whose attempts ran out
ProceedsAfterExhaustion(pol) == pol.allow_degraded

\* variant: max_attempts read as the number of retries after the first try
AttemptBudget_Retries(pol) == pol.max_attempts + 1

\* the attempt budget of a phase: total attempts, not retries
AttemptBudget(pol) == pol.max_attempts

\* variant: a raised exception or a timeout is not caught
AttemptStatus_Uncaught(f) ==
    IF f.kind = "result" THEN f.status ELSE "ESCAPED"

\* what the engine makes of a handler invocation that did not return SUCCESS:
\* the returned status, and a raised exception or a timeout turned into a
\* failed attempt
AttemptStatus(f) ==
    IF f.kind = "result" THEN f.status ELSE "RETRY"

AttemptReason(f) ==
    CASE f.kind = "result"    -> "handler_" \o f.status
      [] f.kind = "exception" -> "handler_exception"
      [] f.kind = "timeout"   -> "handler_timeout"

AttemptElapsed(f) ==
    IF f.kind = "timeout" THEN HandlerTimeout ELSE HandlerElapsed

\* outputs of a handler invocation that did not return SUCCESS: the
\* handler's fallback outputs, and the partial outputs of a result carrying
\* them
FaultOutputs(p, f) ==
    p.fallback \cup (IF f.kind = "result" /\ f.partial THEN p.partial ELSE {})

\* one phase_log entry
LogEntry(name, n, status, elapsed, reason, outputs, ts) ==
    [phase_name |-> name, attempt |-> n, status |-> status,
     elapsed_s |-> elapsed, reason |-> reason, outputs |-> outputs,
     timestamp |-> ts]

\* variant: attempts that never reached the handler are not logged
AppendLog_HandlerOnly(log, entry) ==
    IF entry.reason = "precondition_failed" THEN log ELSE Append(log, entry)

\* every attempt is logged, whatever its outcome
AppendLog(log, entry) == Append(log, entry)

\* engine state after the loop moved past phase idx
EngineAfter(idx) == IF NextPhaseIndex(idx) > NumPhases THEN "done" ELSE "running"

(***************************************************************************)
(* Initial state                                                           *)
(***************************************************************************)
\* the pipeline before its first step, on the seven-phase list
PipelineIdle ==
    /\ phases = PIPELINE_PHASES
    /\ force_phase = 0
    /\ handler_faults = HandlerFaults
    /\ ctx = EmptyContext
    /\ phase_log = << >>
    /\ current_phase_index = 1
    /\ attempt = 0
    /\ phase_status = [i \in 1..Len(phases) |-> "PENDING"]
    /\ handler_calls = [i \in 1..Len(phases) |-> 0]
    /\ attempts_total = [i \in 1..Len(phases) |-> 0]
    /\ engine = "running"
    /\ clock = 0

\* the agent before its first tick
AgentStart ==
    /\ latest_observation = NoObservation
    /\ decision = Decision("WAIT")
    /\ last_dispatch = [ticks |-> 0]

\* an empty RingBuffer
RingStart(cfg) ==
    /\ ring_config = cfg
    /\ ring_now = 0
    /\ ring_buffer = << >>
    /\ ring_pushes = 0
    /\ last_read = NoRead

\* SearchController about to announce, in the given sound field
SearchStart(field) ==
    /\ sweep_audio = field
    /\ search_state = "announce"
    /\ sweep = << >>
    /\ estimate = NoEstimate
    /\ search_report = "none"
    /\ nav_target = NoTarget

SilentField == [i \in 1..CoarseHeadings |-> Silence]

\* the executor before its first plan
ExecutorStart ==
    /\ exec_plan = NoPlan
    /\ exec_decision = NoPlan
    /\ exec_wait_s = 0
    /\ exec_events = << >>
    /\ exec_sent = << >>
    /\ exec_state = "idle"

\* planner, agent loop and frame store before the agent starts
\* the agent loop after boot: all tasks running, searching, nothing sent
LoopStart ==
    /\ policy_mode = "SEARCH"
    /\ scene = "nobody"
    /\ loop_decision = Decision("WAIT")
    /\ conversation = "not_asked"
    /\ wait_left = 0
    /\ last_sent = NothingSent
    /\ stop_signal = FALSE
    /\ exited = {}
    /\ process = "running"

\* the frame store before the first frame, no Decision set yet
StoreStart ==
    /\ fs_frame = 0
    /\ fs_obs = 0
    /\ fs_lock = "free"
    /\ perception_pc = "idle"
    /\ obs_commits = 0
    /\ shared_decision = 0
    /\ fs_entries = << >>
    /\ got = NothingRead
    /\ read_entry = NothingRead
    /\ telemetry = NothingRead

\* no handler running, robot bridge and command center as given
MissionStart(bridge, sink) ==
    /\ handlers_running = 0
    /\ bridge_up = bridge
    /\ sink_up = sink
    /\ io_failures = 0

\* no snapshot written, first run
ResumeStart ==
    /\ snapshot = NoSnapshot
    /\ run_no = 1

\* EventManager before the first event, with the documented defaults
EventStart(k, strategy) ==
    /\ event_k = k
    /\ event_strategy = strategy
    /\ found_person_emitted = FALSE
    /\ confident_frames = 0
    /\ events_emitted = [t \in EventType |-> 0]
    /\ last_event = NoEvent

\* command center just started, operator loop about to poll
QueueStart ==
    /\ operator_messages = << >>
    /\ next_index = 0
    /\ op_pc = "poll"
    /\ op_pending = << >>
    /\ op_after_index = NoIndex
    /\ op_spoken = << >>
    /\ op_late = {}

\* page just mounted, command center without report or comms
PageStart ==
    /\ server_comms = << >>
    /\ server_report = NoReport
    /\ in_flight = EmptyBag
    /\ latest = NoLatest
    /\ lastReport = NoReport
    /\ optimisticMsgs = << >>
    /\ loading = FALSE
    /\ post = NoPost
    /\ sends = 0

CenterStart ==
    /\ QueueStart
    /\ PageStart

ServiceStart ==
    /\ ResumeStart
    /\ EventStart(DefaultKeyframes, "spread")
    /\ CenterStart

OrchestratorStart ==
    /\ ExecutorStart
    /\ LoopStart
    /\ StoreStart
    /\ MissionStart(TRUE, TRUE)
    /\ ServiceStart

Init ==
    /\ phases \in PhaseLists
    /\ force_phase \in 0..Len(phases)
    /\ handler_faults \in FaultProfiles(phases)
    /\ ctx \in {EmptyContext, RestoredContext(phases, force_phase)}
    /\ phase_log = << >>
    /\ current_phase_index = 1
    /\ attempt = 0
    /\ phase_status = [i \in 1..Len(phases) |-> "PENDING"]
    /\ handler_calls = [i \in 1..Len(phases) |-> 0]
    /\ attempts_total = [i \in 1..Len(phases) |-> 0]
    /\ engine = "running"
    /\ clock = 0
    /\ AgentStart
    /\ RingStart(DefaultRingConfig)
    /\ OrchestratorStart
    /\ SearchStart(SilentField)

(***************************************************************************)
(* PipelineRunner.run, one loop step per action                            *)
(***************************************************************************)
CurrentPhase == phases[current_phase_index]

Running == engine = "running" /\ current_phase_index \in 1..NumPhases

\* force_phase set and phase index < target: SKIPPED, handler not invoked
SkipPhase ==
    /\ UNCHANGED << agentVars, ringVars, searchVars, orchestratorVars >>
    /\ Running
    /\ IsSkipped(current_phase_index, force_phase)
    /\ phase_log' = Append(phase_log,
          LogEntry(CurrentPhase.name, 0, "SKIPPED", 0, "deliberate override",
                   {}, clock))
    /\ phase_status' = [phase_status EXCEPT ![current_phase_index] = "SKIPPED"]
    /\ current_phase_index' = NextPhaseIndex(current_phase_index)
    /\ engine' = EngineAfter(current_phase_index)
    /\ UNCHANGED << phases, force_phase, handler_faults, ctx, attempt,
                    handler_calls, attempts_total, clock >>

\* a failed attempt: logged, counted against the budget; when the budget is
\* spent the phase resolves by its policy
FailedAttempt(status, reason, elapsed, outputs) ==
    LET p   == CurrentPhase
        pol == p.retry_policy
        n   == attempt + 1
        entry == LogEntry(p.name, n, status, elapsed, reason, outputs,
                          clock + elapsed)
    IN  /\ phase_log' = AppendLog(phase_log, entry)
        /\ attempts_total' = [attempts_total EXCEPT ![current_phase_index] = @ + 1]
        /\ IF n < AttemptBudget(pol)
           THEN /\ attempt' = n
                /\ clock' = clock + elapsed + pol.cooldown_s
                /\ ctx' = AfterFailedAttempt(ctx, outputs, current_phase_index)
                /\ UNCHANGED << phase_status, current_phase_index, engine >>
           ELSE /\ attempt' = 0
                /\ clock' = clock + elapsed
                /\ phase_status' = [phase_status EXCEPT
                                      ![current_phase_index] = OnExhaustion(pol)]
                /\ IF ProceedsAfterExhaustion(pol)
                   THEN /\ ctx' = MergeOutputs(ctx, outputs, current_phase_index)
                        /\ current_phase_index' =
                               NextPhaseIndex(current_phase_index)
                        /\ engine' = EngineAfter(current_phase_index)
                   ELSE /\ engine' = "halted"
                        /\ UNCHANGED << ctx, current_phase_index >>

\* required field missing or empty: immediate failure, handler not invoked
PreconditionFailure ==
    /\ UNCHANGED << agentVars, ringVars, searchVars, orchestratorVars >>
    /\ Running
    /\ ~IsSkipped(current_phase_index, force_phase)
    /\ ~PreconditionsMet(ctx, CurrentPhase)
    /\ FailedAttempt("RETRY", "precondition_failed", 0, {})
    /\ UNCHANGED << phases, force_phase, handler_faults, handler_calls >>

\* handler returns SUCCESS: merge outputs, log, next phase
HandlerSuccess ==
    /\ UNCHANGED << agentVars, ringVars, searchVars, orchestratorVars >>
    /\ Running
    /\ ~IsSkipped(current_phase_index, force_phase)
    /\ PreconditionsMet(ctx, CurrentPhase)
    /\ handler_calls' = [handler_calls EXCEPT ![current_phase_index] = @ + 1]
    /\ ctx' = MergeOutputs(ctx, CurrentPhase.produces, current_phase_index)
    /\ attempts_total' = [attempts_total EXCEPT ![current_phase_index] = @ + 1]
    /\ phase_log' = AppendLog(phase_log,
          LogEntry(CurrentPhase.name, attempt + 1, "SUCCESS", HandlerElapsed,
                   "ok", CurrentPhase.produces, clock + HandlerElapsed))
    /\ phase_status' = [phase_status EXCEPT ![current_phase_index] = "SUCCESS"]
    /\ attempt' = 0
    /\ clock' = clock + HandlerElapsed
    /\ current_phase_index' = NextPhaseIndex(current_phase_index)
    /\ engine' = EngineAfter(current_phase_index)
    /\ UNCHANGED << phases, force_phase, handler_faults >>

\* handler returns a PhaseResult whose status is not SUCCESS
HandlerFailure ==
    /\ UNCHANGED << agentVars, ringVars, searchVars, orchestratorVars >>
    /\ Running
    /\ ~IsSkipped(current_phase_index, force_phase)
    /\ PreconditionsMet(ctx, CurrentPhase)
    /\ \E f \in handler_faults :
          /\ f.kind = "result"
          /\ FailedAttempt(AttemptStatus(f), AttemptReason(f), AttemptElapsed(f),
                           FaultOutputs(CurrentPhase, f))
    /\ handler_calls' = [handler_calls EXCEPT ![current_phase_index] = @ + 1]
    /\ UNCHANGED << phases, force_phase, handler_faults >>

\* handler raises or times out
HandlerException ==
    /\ UNCHANGED << agentVars, ringVars, searchVars, orchestratorVars >>
    /\ Running
    /\ ~IsSkipped(current_phase_index, force_phase)
    /\ PreconditionsMet(ctx, CurrentPhase)
    /\ \E f \in handler_faults :
          /\ f.kind # "result"
          /\ IF AttemptStatus(f) \in PhaseStatus
             THEN FailedAttempt(AttemptStatus(f), AttemptReason(f),
                                AttemptElapsed(f), FaultOutputs(CurrentPhase, f))
             ELSE /\ engine' = "crashed"
                  /\ UNCHANGED << ctx, phase_log, current_phase_index, attempt,
                                  phase_status, attempts_total, clock >>
    /\ handler_calls' = [handler_calls EXCEPT ![current_phase_index] = @ + 1]
    /\ UNCHANGED << phases, force_phase, handler_faults >>

Next ==
    \/ SkipPhase
    \/ PreconditionFailure
    \/ HandlerSuccess
    \/ HandlerFailure
    \/ HandlerException

Spec == Init /\ [][Next]_vars

(***************************************************************************)
(* The always-on agent: perception, policy and actuation tasks             *)
(***************************************************************************)
AgentInit ==
    /\ PipelineIdle
    /\ AgentStart
    /\ RingStart(DefaultRingConfig)
    /\ OrchestratorStart
    /\ SearchStart(SilentField)

\* perception_task: read frame, detect, update the latest Observation
PerceptionTick ==
    /\ \E obs \in Observations : latest_observation' = obs
    /\ UNCHANGED << decision, last_dispatch, pipelineVars, ringVars, searchVars, orchestratorVars >>

\* policy_task: read observation, call the policy, set decision
PolicyTick ==
    /\ \E a \in Action : decision' = Decision(a)
    /\ UNCHANGED << latest_observation, last_dispatch, pipelineVars, ringVars, searchVars, orchestratorVars >>

\* actuation_task: apply the ReflexController override, then send the robot
\* command or speak
ActuationTick ==
    LET override == ReflexController(latest_observation)
    IN  /\ last_dispatch' =
              [ticks |-> 1,
               observation |-> latest_observation,
               decision |-> decision,
               override |-> override,
               action |-> DispatchedAction(override, decision)]
        /\ UNCHANGED << latest_observation, decision, pipelineVars, ringVars, searchVars, orchestratorVars >>

AgentNext ==
    \/ PerceptionTick
    \/ PolicyTick
    \/ ActuationTick

AgentSpec == AgentInit /\ [][AgentNext]_vars

(***************************************************************************)
(* The RingBuffer fed by the perception task and read on events            *)
(***************************************************************************)
RingInit ==
    /\ PipelineIdle
    /\ AgentStart
    /\ \E cfg \in RingConfigs : RingStart(cfg)
    /\ SearchStart(SilentField)
    /\ OrchestratorStart

\* a frame is pushed `gap` ticks after the previous one
PushFrame(gap, conf) ==
    /\ ring_pushes < PushLimit(ring_config)
    /\ ring_now' = ring_now + gap
    /\ ring_pushes' = ring_pushes + 1
    /\ ring_buffer' = push(ring_buffer,
                           RingEntry(ring_now + gap, ring_pushes + 1, conf),
                           ring_now + gap, ring_config)

\* perception_task pushes a frame `gap` ticks after the previous one
Push(gap, conf) ==
    /\ PushFrame(gap, conf)
    /\ UNCHANGED << ring_config, last_read, pipelineVars, agentVars,
                    searchVars, orchestratorVars >>

RingPush ==
    \E gap \in FrameGaps(ring_config),
       conf \in FrameConfidences(ring_config, ring_pushes + 1) :
        Push(gap, conf)

\* a reader calls get_window(seconds_back)
GetWindow ==
    /\ \E seconds_back \in {1, ring_config.max_seconds} :
          last_read' = [op |-> "get_window",
                        seconds_back |-> seconds_back,
                        at |-> ring_now,
                        result |-> get_window(ring_buffer, ring_now,
                                              seconds_back)]
    /\ UNCHANGED << ring_config, ring_now, ring_buffer, ring_pushes,
                    pipelineVars, agentVars, searchVars, orchestratorVars >>

\* EventManager.emit calls get_keyframes(k, strategy)
GetKeyframes ==
    /\ \E k \in 0..MaxKeyframes, strategy \in Strategies :
          LET window == get_window(ring_buffer, ring_now,
                                   KeyframeWindowSeconds)
          IN  last_read' = [op |-> "get_keyframes",
                            k |-> k,
                            strategy |-> strategy,
                            window |-> window,
                            result |-> get_keyframes(window, k, strategy)]
    /\ UNCHANGED << ring_config, ring_now, ring_buffer, ring_pushes,
                    pipelineVars, agentVars, searchVars, orchestratorVars >>

RingNext ==
    \/ RingPush
    \/ GetWindow
    \/ GetKeyframes

RingSpec == RingInit /\ [][RingNext]_vars

(***************************************************************************)
(* SearchController: announce, rotation sweep, estimate, navigate          *)
(***************************************************************************)
SearchInit ==
    /\ PipelineIdle
    /\ AgentStart
    /\ RingStart(DefaultRingConfig)
    /\ OrchestratorStart
    /\ \E field \in SoundFields : SearchStart(field)

\* speak the hailing phrase, then start listening
Announce ==
    /\ search_state = "announce"
    /\ search_state' = "listen"
    /\ UNCHANGED << sweep_audio, sweep, estimate, search_report, nav_target,
                    pipelineVars, agentVars, ringVars,
                    orchestratorVars >>

\* record one audio window at the current heading, score it, turn one step
RecordWindow ==
    /\ search_state = "listen"
    /\ Len(sweep) < Len(sweep_audio)
    /\ sweep' = Append(sweep,
                       BearingSample(Len(sweep) * StepDeg(Len(sweep_audio)),
                                     sweep_audio[Len(sweep) + 1]))
    /\ UNCHANGED << sweep_audio, search_state, estimate, search_report,
                    nav_target, pipelineVars, agentVars, ringVars,
                    orchestratorVars >>

\* the rotation is complete: estimate the bearing and decide what to do
EstimateBearing ==
    /\ search_state = "listen"
    /\ Len(sweep) = Len(sweep_audio)
    /\ estimate' = BearingEstimator(sweep)
    /\ search_report' = SearchOutcome(sweep, BearingEstimator(sweep))
    /\ search_state' = IF SearchOutcome(sweep, BearingEstimator(sweep)) = "bearing"
                       THEN "navigate_to_sound" ELSE "patrol"
    /\ UNCHANGED << sweep_audio, sweep, nav_target, pipelineVars, agentVars,
                    ringVars,
                    orchestratorVars >>

\* rotate toward the bearing and step forward; vision takes over
Navigate ==
    /\ search_state = "navigate_to_sound"
    /\ nav_target' = estimate.heading_deg
    /\ search_state' = "approach"
    /\ UNCHANGED << sweep_audio, sweep, estimate, search_report,
                    pipelineVars, agentVars, ringVars,
                    orchestratorVars >>

\* vision-only patrol: rotate and advance without a bearing target
Patrol ==
    /\ search_state = "patrol"
    /\ search_state' = "vision_only"
    /\ UNCHANGED << sweep_audio, sweep, estimate, search_report, nav_target,
                    pipelineVars, agentVars, ringVars,
                    orchestratorVars >>

SearchNext ==
    \/ Announce
    \/ RecordWindow
    \/ EstimateBearing
    \/ Navigate
    \/ Patrol

SearchSpec == SearchInit /\ [][SearchNext]_vars

(***************************************************************************)
(* Planner and executor: one plan at a time, validated, then dispatched    *)
(***************************************************************************)
ExecutorInit ==
    /\ PipelineIdle
    /\ AgentStart
    /\ RingStart(DefaultRingConfig)
    /\ SearchStart(SilentField)
    /\ OrchestratorStart

\* plan_next_actions hands a Decision to the executor, which validates it
ValidatePlan ==
    /\ exec_state = "idle"
    /\ Len(exec_sent) < MaxPlans
    /\ \E d \in PlannerOutputs :
          LET v == validate_plan(d)
          IN  /\ exec_plan' = d
              /\ exec_decision' = v.decision
              /\ exec_wait_s' = v.wait_s
              /\ exec_events' = IF v.violation
                                THEN Append(exec_events, "contract_violation")
                                ELSE exec_events
    /\ exec_state' = "validated"
    /\ UNCHANGED << exec_sent, coreVars, loopVars,
                    storeVars, missionVars, serviceVars >>

\* dispatch_action sends the validated Decision's action
DispatchAction ==
    /\ exec_state = "validated"
    /\ IF DispatchRaises(exec_decision)
       THEN /\ exec_state' = "raised"
            /\ UNCHANGED exec_sent
       ELSE /\ exec_state' = "idle"
            /\ exec_sent' = Append(exec_sent, exec_decision.action)
    /\ UNCHANGED << exec_plan, exec_decision, exec_wait_s, exec_events,
                    coreVars, loopVars,
                    storeVars, missionVars, serviceVars >>

ExecutorNext ==
    \/ ValidatePlan
    \/ DispatchAction

ExecutorSpec == ExecutorInit /\ [][ExecutorNext]_vars

(***************************************************************************)
(* Perception and policy publishing, everyone else reading                 *)
(***************************************************************************)
StoreInit ==
    /\ PipelineIdle
    /\ AgentStart
    /\ RingStart(DefaultRingConfig)
    /\ SearchStart(SilentField)
    /\ OrchestratorStart

\* LatestFrameStore.update(frame, obs): take the lock, store the frame
UpdateFrame ==
    /\ perception_pc = "idle"
    /\ obs_commits < MaxCommits
    /\ fs_lock = "free"
    /\ fs_lock' = "perception"
    /\ fs_frame' = obs_commits + 1
    /\ perception_pc' = "updating"
    /\ UNCHANGED << fs_obs, obs_commits, shared_decision, fs_entries, got,
                    read_entry, telemetry, coreVars, executorVars, loopVars,
                    missionVars, serviceVars >>

\* LatestFrameStore.update(frame, obs): store the Observation, release
UpdateObservation ==
    /\ perception_pc = "updating"
    /\ fs_obs' = fs_frame
    /\ obs_commits' = obs_commits + 1
    /\ fs_lock' = "free"
    /\ perception_pc' = "pushing"
    /\ UNCHANGED << fs_frame, shared_decision, fs_entries, got, read_entry,
                    telemetry, coreVars, executorVars, loopVars,
                    missionVars, serviceVars >>

\* RingBuffer.push(frame, obs): one complete entry is appended
PushEntry ==
    /\ perception_pc = "pushing"
    /\ fs_entries' = Append(fs_entries, RingEntry(fs_obs, fs_frame, fs_obs))
    /\ perception_pc' = "idle"
    /\ UNCHANGED << fs_frame, fs_obs, fs_lock, obs_commits, shared_decision,
                    got, read_entry, telemetry, coreVars, executorVars,
                    loopVars, missionVars, serviceVars >>

\* policy_task: set decision
SetDecision ==
    /\ shared_decision < MaxCommits
    /\ shared_decision' = shared_decision + 1
    /\ UNCHANGED << fs_frame, fs_obs, fs_lock, perception_pc, obs_commits,
                    fs_entries, got, read_entry, telemetry, coreVars,
                    executorVars, loopVars, missionVars, serviceVars >>

\* LatestFrameStore.get_latest()
GetLatest ==
    /\ Readable(fs_lock)
    /\ got' = [of |-> "get_latest", frame |-> fs_frame, observation |-> fs_obs,
               committed |-> obs_commits]
    /\ UNCHANGED << fs_frame, fs_obs, fs_lock, perception_pc, obs_commits,
                    shared_decision, fs_entries, read_entry, telemetry,
                    coreVars, executorVars, loopVars,
                    missionVars, serviceVars >>

\* a reader takes the newest RingBuffer entry
ReadNewestEntry ==
    /\ fs_entries # << >>
    /\ read_entry' = [of |-> "entry", entry |-> fs_entries[Len(fs_entries)],
                      pushed |-> Len(fs_entries)]
    /\ UNCHANGED << fs_frame, fs_obs, fs_lock, perception_pc, obs_commits,
                    shared_decision, fs_entries, got, telemetry, coreVars,
                    executorVars, loopVars, missionVars, serviceVars >>

\* telemetry_task: build the payload from the latest Observation and the
\* Decision, then post it
TelemetryPost ==
    /\ Readable(fs_lock)
    /\ telemetry' = [of |-> "telemetry", observation |-> fs_obs,
                     decision |-> shared_decision,
                     obs_committed |-> obs_commits]
    /\ UNCHANGED << fs_frame, fs_obs, fs_lock, perception_pc, obs_commits,
                    shared_decision, fs_entries, got, read_entry, coreVars,
                    executorVars, loopVars, missionVars, serviceVars >>

StoreNext ==
    \/ UpdateFrame
    \/ UpdateObservation
    \/ PushEntry
    \/ SetDecision
    \/ GetLatest
    \/ ReadNewestEntry
    \/ TelemetryPost

StoreSpec == StoreInit /\ [][StoreNext]_vars

(***************************************************************************)
(* The agent loop: concurrent tasks until stop, then clean shutdown        *)
(***************************************************************************)
LoopInit ==
    /\ PipelineIdle
    /\ AgentStart
    /\ RingStart(DefaultRingConfig)
    /\ SearchStart(SilentField)
    /\ OrchestratorStart

\* variant: the loops do not look at the stop
Ticking_ThroughStop(t) == process = "running" /\ t \notin exited

\* a task ticks until stop
Ticking(t) == process = "running" /\ ~stop_signal /\ t \notin exited

\* perception_task: read frame, detect, update the latest Observation
perception_task ==
    /\ Ticking("perception")
    /\ \E sc \in Scenes : scene' = sc
    /\ UNCHANGED << policy_mode, loop_decision, conversation, wait_left,
                    last_sent, stop_signal, exited, process,
                    coreVars, executorVars,
                    storeVars, missionVars, serviceVars >>

\* policy_task: read observation and conversation state, call the policy,
\* set decision and mode
policy_task ==
    /\ Ticking("policy")
    /\ LET m == NextMode(policy_mode, scene, conversation)
       IN  /\ policy_mode' = m
           /\ \E a \in PolicyActions(m, conversation) :
                 loop_decision' = validate_plan(Decision(a)).decision
    /\ UNCHANGED << scene, conversation, wait_left, last_sent, stop_signal,
                    exited, process, coreVars, executorVars,
                    storeVars, missionVars, serviceVars >>

\* actuation_task: while a response is awaited only the reflex override is
\* sent; otherwise the override or the Decision, and an ASK starts the wait
actuation_task ==
    /\ Ticking("actuation")
    /\ \E obs \in SceneObservations(scene) :
          LET override == ReflexController(obs)
              action   == DispatchedAction(override, loop_decision)
              origin   == IF override # "NONE" THEN "reflex" ELSE "policy"
              waiting  == conversation = "waiting"
          IN  IF Suspended(conversation)
              THEN /\ last_sent' = IF override # "NONE"
                                   THEN Sent(override, "reflex", waiting)
                                   ELSE last_sent
                   /\ UNCHANGED << conversation, wait_left >>
              ELSE IF action = "ASK"
                   THEN IF conversation = "not_asked"
                        THEN /\ last_sent' = Sent("ASK", "policy", waiting)
                             /\ conversation' = "waiting"
                             /\ wait_left' = loop_decision.wait_for_response_s
                        ELSE UNCHANGED << last_sent, conversation, wait_left >>
                   ELSE /\ last_sent' = Sent(action, origin, waiting)
                        /\ UNCHANGED << conversation, wait_left >>
    /\ UNCHANGED << policy_mode, scene, loop_decision, stop_signal,
                    exited, process, coreVars, executorVars,
                    storeVars, missionVars, serviceVars >>

\* one second of the listen timeout passes
Elapse ==
    /\ conversation = "waiting"
    /\ ~stop_signal
    /\ wait_left > 0
    /\ wait_left' = wait_left - 1
    /\ UNCHANGED << policy_mode, scene, loop_decision, conversation, last_sent,
                    stop_signal, exited, process, coreVars,
                    executorVars, storeVars, missionVars, serviceVars >>

\* how the blocked listen(timeout) of audio_task returns
ListenReturns(outcome) ==
    /\ conversation = "waiting"
    /\ conversation' = outcome
    /\ UNCHANGED << policy_mode, scene, loop_decision, wait_left, last_sent,
                    stop_signal, exited, process, coreVars,
                    executorVars, storeVars, missionVars, serviceVars >>

\* audio_task: the response is heard, transcript stored, HEARD_RESPONSE
HeardResponse == ~stop_signal /\ ListenReturns("reply")

\* variant: a cancelled listen returns like one that timed out
ListenCancelled_AsTimeout == stop_signal /\ ListenReturns("timeout")

\* audio_task: the timeout ran out
ListenTimeout == ~stop_signal /\ wait_left = 0 /\ ListenReturns("timeout")

\* audio_task: the listen is cancelled by the stop
ListenCancelled == stop_signal /\ ListenReturns("cancelled")

\* SIGINT/SIGTERM or Ctrl+C
StopSignal ==
    /\ process = "running"
    /\ ~stop_signal
    /\ stop_signal' = TRUE
    /\ UNCHANGED << policy_mode, scene, loop_decision, conversation, wait_left,
                    last_sent, exited, process, coreVars,
                    executorVars, storeVars, missionVars, serviceVars >>

\* clean shutdown: a cancelled task leaves its loop
TaskExit ==
    /\ stop_signal
    /\ \E t \in Tasks \ exited :
          /\ t = "audio" => conversation # "waiting"
          /\ exited' = exited \cup {t}
    /\ UNCHANGED << policy_mode, scene, loop_decision, conversation, wait_left,
                    last_sent, stop_signal, process, coreVars,
                    executorVars, storeVars, missionVars, serviceVars >>

\* clean shutdown: stop robot
StopRobot ==
    /\ process = "running"
    /\ exited = Tasks
    /\ last_sent.origin # "shutdown"
    /\ last_sent' = Sent("STOP", "shutdown", FALSE)
    /\ UNCHANGED << policy_mode, scene, loop_decision, conversation, wait_left,
                    stop_signal, exited, process, coreVars,
                    executorVars, storeVars, missionVars, serviceVars >>

ProcessExit ==
    /\ process = "running"
    /\ last_sent.origin = "shutdown"
    /\ process' = "exited"
    /\ UNCHANGED << policy_mode, scene, loop_decision, conversation, wait_left,
                    last_sent, stop_signal, exited, coreVars,
                    executorVars, storeVars, missionVars, serviceVars >>

LoopNext ==
    \/ perception_task
    \/ policy_task
    \/ actuation_task
    \/ Elapse
    \/ HeardResponse
    \/ ListenTimeout
    \/ ListenCancelled
    \/ StopSignal
    \/ TaskExit
    \/ StopRobot
    \/ ProcessExit

\* time passes, a returned listen and a cancelled task are resumed, and the
\* shutdown sequence runs to its end
LoopFairness ==
    /\ WF_vars(Elapse)
    /\ WF_vars(ListenTimeout)
    /\ WF_vars(ListenCancelled)
    /\ WF_vars(TaskExit)
    /\ WF_vars(StopRobot)
    /\ WF_vars(ProcessExit)

LoopSpec == LoopInit /\ [][LoopNext]_vars /\ LoopFairness

(***************************************************************************)
(* A mission: the pipeline's handlers take time and call the robot bridge  *)
(* and the command center, while the agent's tasks tick                    *)
(***************************************************************************)
\* every phase but REPORT_SEND acts through the robot
UsesRobot(p) == p.name # "REPORT_SEND"

\* variant: a failed post fails the attempt of any phase
PostFailureFailsAttempt_Always(p) == TRUE

\* CommandCenterClient fails gracefully if the server is down: a failed
\* post is logged and dropped, the handler goes on (REPORT_SEND always
\* saves the report to disk)
PostFailureFailsAttempt(p) == FALSE

\* how a handler invocation ends, given what it can reach
HandlerOutcome(p, bridge, sink) ==
    IF UsesRobot(p) /\ ~bridge THEN "robot_bridge_unreachable"
    ELSE IF ~sink /\ PostFailureFailsAttempt(p) THEN "command_center_unreachable"
    ELSE "ok"

\* variant: a retry is started without waiting for the handler to return
EngineIdle_Overlapping(n) == TRUE

\* the sequential for loop calls the next handler only after the previous
\* call has returned
EngineIdle(n) == n = 0

MissionInit ==
    /\ PipelineIdle
    /\ AgentStart
    /\ RingStart(DefaultRingConfig)
    /\ SearchStart(SilentField)
    /\ ExecutorStart
    /\ LoopStart
    /\ StoreStart
    /\ \E bridge \in BOOLEAN, sink \in BOOLEAN : MissionStart(bridge, sink)
    /\ ServiceStart

\* _execute_phase: preconditions hold, the handler is called
BeginHandler ==
    /\ Running
    /\ EngineIdle(handlers_running)
    /\ PreconditionsMet(ctx, CurrentPhase)
    /\ handlers_running' = handlers_running + 1
    /\ handler_calls' = [handler_calls EXCEPT ![current_phase_index] = @ + 1]
    /\ UNCHANGED << phases, force_phase, handler_faults, ctx, phase_log,
                    current_phase_index, attempt, phase_status, attempts_total,
                    engine, clock, bridge_up, sink_up, io_failures, agentVars,
                    serviceVars,
                    ringVars, searchVars, executorVars, loopVars, storeVars >>

\* _execute_phase: a required field is missing, the handler is not called
MissingPrecondition ==
    /\ EngineIdle(handlers_running)
    /\ PreconditionFailure

\* the handler returns or raises: its telemetry post is made or logged as
\* failed, then validate, store, next iteration
EndHandler ==
    /\ handlers_running > 0
    /\ handlers_running' = handlers_running - 1
    /\ io_failures' = IF sink_up THEN io_failures ELSE io_failures + 1
    /\ LET p       == CurrentPhase
           outcome == HandlerOutcome(p, bridge_up, sink_up)
       IN  IF outcome = "ok"
           THEN /\ ctx' = MergeOutputs(ctx, p.produces, current_phase_index)
                /\ attempts_total' =
                       [attempts_total EXCEPT ![current_phase_index] = @ + 1]
                /\ phase_log' = AppendLog(phase_log,
                       LogEntry(p.name, attempt + 1, "SUCCESS", HandlerElapsed,
                                "ok", p.produces, clock + HandlerElapsed))
                /\ phase_status' =
                       [phase_status EXCEPT ![current_phase_index] = "SUCCESS"]
                /\ attempt' = 0
                /\ clock' = clock + HandlerElapsed
                /\ current_phase_index' = NextPhaseIndex(current_phase_index)
                /\ engine' = EngineAfter(current_phase_index)
           ELSE FailedAttempt("RETRY", outcome, HandlerElapsed, p.fallback)
    /\ UNCHANGED << phases, force_phase, handler_faults, handler_calls,
                    bridge_up, sink_up, agentVars, ringVars, searchVars,
                    serviceVars,
                    executorVars, loopVars, storeVars >>

\* the robot bridge stops answering; it stays down for the rest of the run
BridgeLost ==
    /\ bridge_up
    /\ bridge_up' = FALSE
    /\ UNCHANGED << pipelineVars, handlers_running, sink_up, io_failures,
                    serviceVars,
                    agentVars, ringVars, searchVars, executorVars, loopVars,
                    storeVars >>

\* the engine's steps, and the ticks of the agent's five tasks
MissionNext ==
    \/ BeginHandler
    \/ BridgeLost
    \/ MissingPrecondition
    \/ EndHandler
    \/ perception_task
    \/ policy_task
    \/ actuation_task
    \/ HeardResponse
    \/ TelemetryPost

MissionSpec == MissionInit /\ [][MissionNext]_vars

(***************************************************************************)
(* Reading phase_log                                                       *)
(***************************************************************************)
PhaseIndexOf(name) == CHOOSE i \in 1..NumPhases : phases[i].name = name

\* positions of the attempt entries (not SKIPPED) of phase i
AttemptEntries(i) ==
    { k \in 1..Len(phase_log) :
        /\ phase_log[k].phase_name = phases[i].name
        /\ phase_log[k].status # "SKIPPED" }

SkippedEntries(i) ==
    { k \in 1..Len(phase_log) :
        /\ phase_log[k].phase_name = phases[i].name
        /\ phase_log[k].status = "SKIPPED" }

MaxOf(S) == CHOOSE m \in S : \A x \in S : x <= m

LastAttemptOf(i) == phase_log[MaxOf(AttemptEntries(i))]

\* phase i used up its attempts without a SUCCESS
Exhausted(i) ==
    /\ Cardinality(AttemptEntries(i)) = phases[i].retry_policy.max_attempts
    /\ LastAttemptOf(i).status # "SUCCESS"

\* fields some alternative of the precondition of phase i asks for
RequiredFields(i) == UNION phases[i].pre

\* every producer of a required field is declared before the phase that
\* requires it
ProducersDeclaredFirst ==
    \A i, j \in 1..NumPhases :
        (phases[j].produces \cap RequiredFields(i) # {}) => j < i

\* positions of the entries that are not SKIPPED
Attempted == { k \in 1..Len(phase_log) : phase_log[k].status # "SKIPPED" }

LogInDeclaredOrder ==
    \A j, k \in Attempted :
        j < k => PhaseIndexOf(phase_log[j].phase_name)
                    <= PhaseIndexOf(phase_log[k].phase_name)

NoEntryBeforeProducer ==
    \A j, k \in Attempted :
        j < k =>
          phases[PhaseIndexOf(phase_log[k].phase_name)].produces
             \cap RequiredFields(PhaseIndexOf(phase_log[j].phase_name)) = {}

(***************************************************************************)
(* C1 (as stated): the phase names in phase_log appear in declared order,  *)
(* and no phase has an entry before an entry of a phase that produces one  *)
(* of its precondition fields.                                             *)
(***************************************************************************)
C1_AsStated == LogInDeclaredOrder /\ NoEntryBeforeProducer

(***************************************************************************)
(* C1 (amended): for any phase list the phase names in phase_log appear in *)
(* declared order; and when the list declares the producer of every        *)
(* precondition field before the phase requiring it, no phase has an entry *)
(* before an entry of a phase that produces one of its precondition fields.*)
(***************************************************************************)
C1_PhaseOrdering ==
    LogInDeclaredOrder /\ (ProducersDeclaredFirst => NoEntryBeforeProducer)

\* the seven-phase run went through to MONITOR_WAIT with every phase logged
C1_Witness ==
    /\ phases = PIPELINE_PHASES
    /\ engine = "done"
    /\ force_phase = 0
    /\ \A i \in 1..NumPhases : AttemptEntries(i) # {}
    /\ phase_status[7] = "SUCCESS"

(***************************************************************************)
(* C2: the attempts recorded for a phase never exceed its max_attempts,    *)
(* and a phase whose attempts equal max_attempts with the last one not     *)
(* SUCCESS is resolved DEGRADED or ABORT as its policy says, never SUCCESS.*)
(***************************************************************************)
C2_RetryBudget ==
    \A i \in 1..NumPhases :
        LET pol == phases[i].retry_policy IN
        /\ Cardinality(AttemptEntries(i)) <= pol.max_attempts
        /\ attempts_total[i] <= pol.max_attempts
        /\ Exhausted(i) =>
              /\ phase_status[i] \in {"DEGRADED", "ABORT"}
              /\ phase_status[i] =
                    (IF pol.allow_degraded THEN "DEGRADED"
                                           ELSE pol.fallback_status)

\* SEARCH_HAIL used its five attempts and aborted
C2_Witness ==
    /\ phases = PIPELINE_PHASES
    /\ Cardinality(AttemptEntries(2)) = 5
    /\ Exhausted(2)
    /\ phase_status[2] = "ABORT"
    /\ handler_calls[2] = 5

(***************************************************************************)
(* C3: once a phase has resolved to ABORT the engine has stopped: the last *)
(* phase_log entry is that phase's, no later phase has an entry and no     *)
(* later phase's handler was invoked.                                      *)
(***************************************************************************)
C3_AbortHalts ==
    \A i \in 1..NumPhases :
        phase_status[i] = "ABORT" =>
          /\ engine = "halted"
          /\ phase_log[Len(phase_log)].phase_name = phases[i].name
          /\ \A j \in 1..NumPhases :
                j > i => /\ handler_calls[j] = 0
                         /\ attempts_total[j] = 0
                         /\ AttemptEntries(j) = {}
                         /\ SkippedEntries(j) = {}

\* APPROACH_CONFIRM aborted after its handler failed three times
C3_Witness ==
    /\ phases = PIPELINE_PHASES
    /\ phase_status[3] = "ABORT"
    /\ handler_calls[3] = 3
    /\ engine = "halted"

ObstacleClose(obs) ==
    obs.obstacle_distance_m # NoReading /\ obs.obstacle_distance_m < ObstacleThreshold

(***************************************************************************)
(* C4: in every actuation tick whose Observation has obstacle_distance_m   *)
(* present and below the safety threshold, the action sent to the robot is *)
(* STOP, whatever Decision the policy produced for that tick.              *)
(***************************************************************************)
C4_ReflexPrecedence ==
    (last_dispatch.ticks > 0 /\ ObstacleClose(last_dispatch.observation))
        => last_dispatch.action = "STOP"

\* a tick with an obstacle at 0.4 m while the policy asked a question
C4_Witness ==
    /\ last_dispatch.ticks > 0
    /\ ObstacleClose(last_dispatch.observation)
    /\ last_dispatch.decision.action = "ASK"
    /\ last_dispatch.action = "STOP"

Scenario1 ==
    /\ NumPhases = 3
    /\ phases[2].pre = {{"missing"}}
    /\ ~phases[2].retry_policy.allow_degraded
    /\ phases[2].retry_policy.fallback_status = "ABORT"
    /\ force_phase = 0
    /\ phase_status[1] = "SUCCESS"

(***************************************************************************)
(* C5: three phases, no force_phase, the middle one requiring a field that *)
(* is never present, ABORT fallback: once the engine has stopped, phase 1  *)
(* having succeeded, phase 2 has spent its whole budget on precondition    *)
(* failures without its handler being invoked and is ABORT, phase 3 never  *)
(* ran, and phase_log has exactly 1 + max_attempts(phase 2) entries.       *)
(***************************************************************************)
C5_PreconditionExhaustsBudget ==
    (Scenario1 /\ engine # "running") =>
        /\ phase_status = << "SUCCESS", "ABORT", "PENDING" >>
        /\ engine = "halted"
        /\ handler_calls = << 1, 0, 0 >>
        /\ attempts_total[2] = phases[2].retry_policy.max_attempts
        /\ \A k \in AttemptEntries(2) :
              /\ phase_log[k].reason = "precondition_failed"
              /\ phase_log[k].status # "SUCCESS"
        /\ AttemptEntries(3) = {}
        /\ Len(phase_log) = 1 + phases[2].retry_policy.max_attempts

\* the scenario with max_attempts(phase 2) = 2, stopped
C5_Witness ==
    /\ Scenario1
    /\ engine = "halted"
    /\ phases[2].retry_policy.max_attempts = 2
    /\ Len(phase_log) = 3

(***************************************************************************)
(* C6: a phase that used up max_attempts without SUCCESS: with             *)
(* allow_degraded the outputs of its last result are merged into ctx, the  *)
(* phase is DEGRADED and the loop has moved on to the next phase;          *)
(* otherwise the phase has its fallback_status, the loop has stopped at    *)
(* that phase and no later phase has run.                                  *)
(***************************************************************************)
C6_ExhaustionPolicy ==
    \A i \in 1..NumPhases :
        Exhausted(i) =>
            LET pol == phases[i].retry_policy IN
            IF pol.allow_degraded
            THEN /\ phase_status[i] = "DEGRADED"
                 /\ current_phase_index > i
                 /\ (i = NumPhases => engine = "done")
                 /\ \A f \in LastAttemptOf(i).outputs : ctx[f] = i
            ELSE /\ phase_status[i] = pol.fallback_status
                 /\ engine = "halted"
                 /\ current_phase_index = i
                 /\ \A j \in 1..NumPhases :
                       j > i => handler_calls[j] = 0 /\ attempts_total[j] = 0

\* TRIAGE_DIALOG_SCAN degraded with partial data merged, REPORT_SEND ran
C6_Witness ==
    /\ phases = PIPELINE_PHASES
    /\ Exhausted(5)
    /\ phase_status[5] = "DEGRADED"
    /\ LastAttemptOf(5).outputs = {"triage_answers"}
    /\ ctx["triage_answers"] = 5
    /\ handler_calls[6] > 0

Raised(e) == e.reason \in {"handler_exception", "handler_timeout"}

(***************************************************************************)
(* C7: no handler exception or timeout escapes the run: the engine never   *)
(* crashes, every handler invocation (raising ones included) is one        *)
(* attempt entry counted against max_attempts, an attempt that raised is   *)
(* logged as failed, and a phase whose budget ends on a raised exception   *)
(* resolves by its policy.                                                 *)
(***************************************************************************)
C7_NoExceptionEscapes ==
    /\ engine # "crashed"
    /\ \A i \in 1..NumPhases :
          /\ handler_calls[i] =
                Cardinality({ k \in AttemptEntries(i) :
                                phase_log[k].reason # "precondition_failed" })
          /\ handler_calls[i] <= phases[i].retry_policy.max_attempts
          /\ \A k \in AttemptEntries(i) :
                Raised(phase_log[k]) => phase_log[k].status = "RETRY"
          /\ (Exhausted(i) /\ Raised(LastAttemptOf(i))) =>
                phase_status[i] =
                    (IF phases[i].retry_policy.allow_degraded
                     THEN "DEGRADED"
                     ELSE phases[i].retry_policy.fallback_status)

\* SEARCH_HAIL raised on each of its five attempts and the mission aborted
C7_Witness ==
    /\ phases = PIPELINE_PHASES
    /\ handler_calls[2] = 5
    /\ \A k \in AttemptEntries(2) : Raised(phase_log[k])
    /\ phase_status[2] = "ABORT"
    /\ engine = "halted"

RECURSIVE SumUpTo(_, _)
SumUpTo(f, n) == IF n = 0 THEN 0 ELSE f[n] + SumUpTo(f, n - 1)

Reasons ==
    {"ok", "precondition_failed", "handler_exception", "handler_timeout",
     "handler_RETRY", "handler_DEGRADED", "handler_ABORT"}

(***************************************************************************)
(* C8: phase_log holds exactly one entry for every attempt made            *)
(* (successful, failed, precondition failure or raised), in the order the  *)
(* attempts happened, each with phase name, attempt number, elapsed time   *)
(* and reason.                                                             *)
(***************************************************************************)
C8_AuditTrail ==
    /\ Cardinality(Attempted) = SumUpTo(attempts_total, NumPhases)
    /\ \A i \in 1..NumPhases :
          /\ Cardinality(AttemptEntries(i)) = attempts_total[i]
          /\ \A k \in AttemptEntries(i) :
                phase_log[k].attempt =
                    Cardinality({ j \in AttemptEntries(i) : j <= k })
    /\ \A k \in Attempted :
          /\ \E i \in 1..NumPhases : phase_log[k].phase_name = phases[i].name
          /\ phase_log[k].attempt >= 1
          /\ phase_log[k].elapsed_s \in 0..HandlerTimeout
          /\ phase_log[k].reason \in Reasons
          /\ phase_log[k].status \in PhaseStatus
          /\ (phase_log[k].status = "SUCCESS") = (phase_log[k].reason = "ok")
    /\ \A j, k \in 1..Len(phase_log) :
          j < k => phase_log[j].timestamp <= phase_log[k].timestamp

\* one log with a successful attempt, a precondition failure and an attempt
\* that raised
C8_Witness ==
    /\ engine # "running"
    /\ \E k \in Attempted : phase_log[k].reason = "ok"
    /\ \E k \in Attempted : phase_log[k].reason = "precondition_failed"
    /\ \E k \in Attempted : Raised(phase_log[k])
    /\ Len(phase_log) >= 4

(***************************************************************************)
(* C9: on the seven-phase pipeline, every run in which APPROACH_CONFIRM    *)
(* succeeded ends with a report: none of DEBRIS_CLEAR, TRIAGE_DIALOG_SCAN  *)
(* and REPORT_SEND aborts, REPORT_SEND is reached and report_path is set.  *)
(***************************************************************************)
C9_ReportAlwaysProduced ==
    (/\ phases = PIPELINE_PHASES
     /\ phase_status[3] = "SUCCESS"
     /\ engine # "running")
        => /\ \A i \in {4, 5, 6} : phase_status[i] \notin {"ABORT", "PENDING"}
           /\ attempts_total[6] > 0
           /\ ctx["report_path"] # 0

SkippedBeforeTarget ==
    force_phase # 0 =>
        \A i \in 1..NumPhases :
            i < force_phase =>
                /\ handler_calls[i] = 0
                /\ AttemptEntries(i) = {}
                /\ i < current_phase_index =>
                      /\ Cardinality(SkippedEntries(i)) = 1
                      /\ \A k \in SkippedEntries(i) :
                            phase_log[k].reason = "deliberate override"

SkippedOnlyByOverride ==
    \A i \in 1..NumPhases :
        (SkippedEntries(i) # {} \/ phase_status[i] = "SKIPPED") =>
            force_phase # 0 /\ i < force_phase

OverrideLogged ==
    \E k \in 1..Len(phase_log) : phase_log[k].reason = "deliberate override"

(***************************************************************************)
(* C11: once a phase has committed an output field to MissionContext, no   *)
(* later merge changes that field, except in a run under force_phase whose *)
(* phase_log carries the deliberate-override marker.                       *)
(***************************************************************************)
C11_WriteOnce ==
    [][\A f \in Fields :
          (ctx[f] # 0 /\ ctx'[f] # ctx[f]) => (force_phase # 0 /\ OverrideLogged)
      ]_vars

(***************************************************************************)
(* C12: after each push every entry still in the RingBuffer has            *)
(* timestamp >= now - max_seconds, whatever the gaps between the pushes.   *)
(***************************************************************************)
C12_WindowInvariant ==
    \A i \in 1..Len(ring_buffer) :
        ring_buffer[i].timestamp
            >= ring_now - WindowTicks(ring_config.max_seconds)

\* after a stall longer than the window only the frame just pushed is left
C12_Witness ==
    /\ ring_config = SmallRingConfig
    /\ ring_pushes = 3
    /\ Len(ring_buffer) = 1
    /\ ring_buffer[1].jpeg_bytes = 3

Occurrences(frames, e) ==
    Cardinality({ j \in 1..Len(frames) : frames[j] = e })

(***************************************************************************)
(* C15: get_keyframes(k, strategy) with k larger than the number of        *)
(* entries in the window returns the whole window, each entry exactly      *)
(* once, for both strategies.                                              *)
(***************************************************************************)
C15_WholeWindow ==
    (last_read.op = "get_keyframes" /\ last_read.k > Len(last_read.window)) =>
        /\ last_read.result.raised = "none"
        /\ Len(last_read.result.frames) = Len(last_read.window)
        /\ \A i \in 1..Len(last_read.window) :
              Occurrences(last_read.result.frames, last_read.window[i]) = 1

\* window positions of the entries a get_keyframes call returned
Chosen ==
    { i \in 1..Len(last_read.window) :
        Occurrences(last_read.result.frames, last_read.window[i]) > 0 }

(***************************************************************************)
(* C16: get_keyframes(k, "confidence") returns the k window entries of     *)
(* highest confidence (all of them when the window has fewer than k), and  *)
(* of two entries of equal confidence the more recent one is selected      *)
(* ahead of the older one.                                                 *)
(***************************************************************************)
C16_HighestConfidence ==
    (last_read.op = "get_keyframes" /\ last_read.strategy = "confidence") =>
        LET w == last_read.window
            f == last_read.result.frames
        IN  /\ last_read.result.raised = "none"
            /\ Len(f) = (IF last_read.k < Len(w) THEN last_read.k ELSE Len(w))
            /\ \A j \in 1..Len(f) : \E i \in 1..Len(w) : f[j] = w[i]
            /\ \A i \in 1..Len(w) : Occurrences(f, w[i]) <= 1
            /\ \A i \in Chosen : \A u \in (1..Len(w)) \ Chosen :
                  \/ ConfidenceOf(w[i]) > ConfidenceOf(w[u])
                  \/ (ConfidenceOf(w[i]) = ConfidenceOf(w[u]) /\ i > u)

\* window position of the j-th returned frame
PositionOf(j) ==
    CHOOSE i \in 1..Len(last_read.window) :
        last_read.window[i] = last_read.result.frames[j]

GapAfter(j) == PositionOf(j + 1) - PositionOf(j)

(***************************************************************************)
(* C17: for 1 <= k <= window size, get_keyframes(k, "spread") returns k    *)
(* distinct window entries in window order, evenly spaced by index across  *)
(* the window: the first is the oldest entry, for k >= 2 the last is the   *)
(* newest, and any two gaps between consecutive indices differ by at most  *)
(* one; a second call on the same window returns the same result.          *)
(***************************************************************************)
C17_SpreadEvenlySpaced ==
    (/\ last_read.op = "get_keyframes"
     /\ last_read.strategy = "spread"
     /\ last_read.k >= 1
     /\ last_read.k <= Len(last_read.window)) =>
        LET w == last_read.window
            f == last_read.result.frames
            k == last_read.k
        IN  /\ last_read.result.raised = "none"
            /\ Len(f) = k
            /\ \A j \in 1..k : \E i \in 1..Len(w) : f[j] = w[i]
            /\ PositionOf(1) = 1
            /\ k >= 2 => PositionOf(k) = Len(w)
            /\ \A j \in 1..(k - 1) : GapAfter(j) >= 1
            /\ \A a, b \in 1..(k - 1) : GapAfter(a) - GapAfter(b) <= 1
            /\ get_keyframes(w, k, "spread") = last_read.result

\* three keyframes out of a full window of 20: the 1st, 10th and 20th entry
C17_Witness ==
    /\ last_read.op = "get_keyframes"
    /\ last_read.strategy = "spread"
    /\ last_read.k = 3
    /\ Len(last_read.window) = 20
    /\ last_read.result.frames =
          << last_read.window[1], last_read.window[10], last_read.window[20] >>

\* the sweep is complete and BearingEstimator has run on it
Estimated == estimate.index # 0

(***************************************************************************)
(* C18: the heading BearingEstimator returns is one whose circularly       *)
(* smoothed composite score is maximal, and no heading earlier in sweep    *)
(* order reaches that score: a unique maximum is returned, and of tied     *)
(* headings the one with the lowest index.                                 *)
(***************************************************************************)
C18_BearingIsArgMax ==
    Estimated =>
        /\ estimate.index \in 1..Len(sweep)
        /\ estimate.heading_deg = sweep[estimate.index].heading_deg
        /\ estimate.heading_deg = (estimate.index - 1) * StepDeg(Len(sweep))
        /\ \A j \in 1..Len(sweep) :
              /\ Smoothed(sweep, j) <= Smoothed(sweep, estimate.index)
              /\ j < estimate.index =>
                    Smoothed(sweep, j) < Smoothed(sweep, estimate.index)

\* a sweep with sound in it whose maximal smoothed score is reached at the
\* returned heading and at a later one
C18_Witness ==
    /\ Estimated
    /\ ~AllZeroEnergy(sweep)
    /\ \E j \in 1..Len(sweep) :
          /\ j > estimate.index
          /\ Smoothed(sweep, j) = Smoothed(sweep, estimate.index)
    /\ \E j \in 1..Len(sweep) :
          Smoothed(sweep, j) < Smoothed(sweep, estimate.index)

(***************************************************************************)
(* C19: a sweep whose samples all have zero energy yields confidence 0 and *)
(* the sensor-degraded signal; SearchController reports sensor degraded,   *)
(* not "no voice detected", sets no navigation target and falls back to    *)
(* the vision-only patrol.                                                 *)
(***************************************************************************)
C19_DeadMicrophone ==
    (Estimated /\ AllZeroEnergy(sweep)) =>
        /\ estimate.confidence = 0
        /\ estimate.sensor_degraded
        /\ search_report = "sensor_degraded"
        /\ nav_target = NoTarget
        /\ search_state \in {"patrol", "vision_only"}

\* twelve silent windows: reported as sensor degraded, patrol without target
C19_Witness ==
    /\ Len(sweep) = FineHeadings
    /\ AllZeroEnergy(sweep)
    /\ Estimated
    /\ search_report = "sensor_degraded"
    /\ search_state = "vision_only"

\* twelve headings, voice activity at 180 degrees only, the same low energy
\* at every other heading
SpikeAt180 ==
    /\ Len(sweep) = 12
    /\ sweep[7].heading_deg = 180
    /\ sweep[7].voice_activity_score > MinVoiceActivity
    /\ \A i \in (1..12) \ {7} :
          /\ sweep[i].voice_activity_score = 0
          /\ sweep[i].rms_energy = sweep[1].rms_energy
          /\ sweep[i].rms_energy \in { w.rms_energy : w \in LowEnergyWindows }

(***************************************************************************)
(* C20: for a 12-heading sweep with a voice-activity spike at 180 degrees  *)
(* only and flat low energy elsewhere, the estimated bearing is 180        *)
(* degrees and the confidence is greater than 0.5.                         *)
(***************************************************************************)
C20_SpikeAt180 ==
    (Estimated /\ SpikeAt180) =>
        /\ estimate.heading_deg = 180
        /\ estimate.confidence * 2 > ConfidenceScale

\* no window of the finished sweep is above the voice-activity threshold
NoWindowAboveThreshold ==
    /\ Estimated
    /\ \A i \in 1..Len(sweep) : sweep[i].voice_activity_score <= MinVoiceActivity

PersonOffCentre(obs) ==
    /\ obs.num_persons > 0
    /\ \/ obs.primary_person_center_offset > OffsetThreshold
       \/ obs.primary_person_center_offset < -OffsetThreshold

(***************************************************************************)
(* C23: the override of an actuation tick is determined by the tick's      *)
(* Observation alone, whatever the Decision and whatever came before: STOP *)
(* when an obstacle reading is below the threshold; otherwise ROTATE_LEFT  *)
(* for a negative and ROTATE_RIGHT for a positive offset when a person is  *)
(* present and off centre by more than the threshold; otherwise there is   *)
(* no override and the action sent is the policy Decision's action.        *)
(***************************************************************************)
C23_ReflexClassification ==
    last_dispatch.ticks > 0 =>
        LET obs == last_dispatch.observation
        IN  /\ ObstacleClose(obs) => last_dispatch.override = "STOP"
            /\ (~ObstacleClose(obs) /\ PersonOffCentre(obs)) =>
                  /\ last_dispatch.override =
                        IF obs.primary_person_center_offset < 0
                        THEN "ROTATE_LEFT" ELSE "ROTATE_RIGHT"
                  /\ last_dispatch.action = last_dispatch.override
            /\ (~ObstacleClose(obs) /\ ~PersonOffCentre(obs)) =>
                  /\ last_dispatch.override = "NONE"
                  /\ last_dispatch.action = last_dispatch.decision.action

\* a tick with nobody in the frame, a stale offset beyond the threshold and
\* no obstacle: no override, the policy's FORWARD_SLOW goes out
C23_Witness ==
    /\ last_dispatch.ticks > 0
    /\ ~ObstacleClose(last_dispatch.observation)
    /\ last_dispatch.observation.num_persons = 0
    /\ last_dispatch.observation.primary_person_center_offset > OffsetThreshold
    /\ last_dispatch.override = "NONE"
    /\ last_dispatch.decision.action = "FORWARD_SLOW"
    /\ last_dispatch.action = "FORWARD_SLOW"

\* the executor has taken a plan that breaks the Decision contract
MalformedPlan ==
    /\ exec_plan # NoPlan
    /\ \/ /\ exec_plan.action = "ASK"
          /\ (exec_plan.say = "" \/ exec_plan.wait_for_response_s = 0)
       \/ /\ exec_plan.action = "SAY"
          /\ (exec_plan.say = "" \/ exec_plan.wait_for_response_s # 0)

(***************************************************************************)
(* C22: the executor never raises, and a plan that is an ASK with empty    *)
(* say or without wait_for_response_s, or a SAY with empty say or a        *)
(* non-zero wait_for_response_s, is never dispatched: the executor acts on *)
(* a WAIT of the fixed fallback duration instead and has logged a          *)
(* contract-violation event for it.                                        *)
(***************************************************************************)
C22_MalformedDecision ==
    /\ exec_state # "raised"
    /\ MalformedPlan =>
          /\ exec_decision.action = "WAIT"
          /\ exec_wait_s = FallbackWaitSeconds
          /\ Len(exec_events) > 0
          /\ exec_events[Len(exec_events)] = "contract_violation"
          /\ exec_state = "idle" =>
                exec_sent[Len(exec_sent)] = "WAIT"
    /\ exec_decision # NoPlan => WellFormed(exec_decision)
    /\ (exec_plan # NoPlan /\ ~MalformedPlan) =>
          /\ exec_decision = exec_plan
          /\ Len(exec_events) < Len(exec_sent) + 1

\* scenario 4: an ASK with empty say was submitted, WAIT went out, the
\* violation is in the log and the executor is ready for the next plan
C22_Witness ==
    /\ exec_plan = [action |-> "ASK", say |-> "", wait_for_response_s |-> 5]
    /\ exec_state = "idle"
    /\ exec_sent = << "WAIT" >>
    /\ exec_events = << "contract_violation" >>

ModeRank(m) ==
    IF m = "SEARCH" THEN 1 ELSE IF m = "APPROACH" THEN 2
    ELSE IF m = "ASSESS" THEN 3 ELSE 4

(***************************************************************************)
(* C24: every step leaves the policy mode where it is or moves it one step *)
(* along SEARCH, APPROACH, ASSESS, REPORT, never backwards; the step from  *)
(* ASSESS to REPORT is taken only when the triage question has been asked  *)
(* and its wait ended with a reply or the timeout; REPORT stays REPORT.    *)
(***************************************************************************)
C24_ModeProgression ==
    [][ /\ ModeRank(policy_mode') \in
              {ModeRank(policy_mode), ModeRank(policy_mode) + 1}
        /\ (policy_mode = "ASSESS" /\ policy_mode' = "REPORT") =>
              conversation \in {"reply", "timeout"}
        /\ policy_mode = "REPORT" => policy_mode' = "REPORT" ]_vars

\* the policy has reached REPORT after a question that nobody answered
C24_Witness ==
    /\ policy_mode = "REPORT"
    /\ conversation = "timeout"
    /\ loop_decision.action = "STOP"

\* what the tasks write in their ticks
TaskOutputs == << policy_mode, scene, loop_decision >>

(***************************************************************************)
(* C25: once the stop signal is raised no task starts another tick (the    *)
(* only command still sent is the STOP of the shutdown), the process       *)
(* exits, and when it has exited every task has left its loop and the last *)
(* command sent to the robot is the explicit STOP, in whatever mode the    *)
(* signal arrived.                                                         *)
(***************************************************************************)
C25_CleanShutdown ==
    /\ [][ stop_signal =>
             /\ TaskOutputs' = TaskOutputs
             /\ last_sent' # last_sent => last_sent' = Sent("STOP", "shutdown", FALSE)
             /\ conversation' # conversation => conversation' = "cancelled" ]_vars
    /\ [](process = "exited" =>
             /\ exited = Tasks
             /\ last_sent = Sent("STOP", "shutdown", FALSE))
    /\ (stop_signal ~> process = "exited")

\* stopped on approach while the robot was moving forward: all five tasks
\* gone, STOP sent, process exited
C25_Witness ==
    /\ process = "exited"
    /\ policy_mode = "APPROACH"
    /\ loop_decision.action = "FORWARD_SLOW"
    /\ exited = Tasks
    /\ last_sent.action = "STOP"

(***************************************************************************)
(* C26: while the audio task is blocked in its wait and the stop signal is *)
(* up, no more of the timeout passes and the wait can only return          *)
(* cancelled, which it does; a cancelled outcome is reported for a stop    *)
(* only, a timeout only when the whole wait has passed.                    *)
(***************************************************************************)
C26_CancelledListen ==
    /\ [][ (stop_signal /\ conversation = "waiting") =>
             /\ wait_left' = wait_left
             /\ conversation' \in {"waiting", "cancelled"} ]_vars
    /\ []((conversation = "cancelled" => stop_signal)
          /\ (conversation = "timeout" => wait_left = 0))
    /\ ((stop_signal /\ conversation = "waiting") ~> conversation = "cancelled")

\* a wait cut short by the stop, with time left on it
C26_Witness ==
    /\ conversation = "cancelled"
    /\ wait_left > 0
    /\ stop_signal

(***************************************************************************)
(* C27: while the response to a dispatched ASK is awaited, what was last   *)
(* sent is that ASK or a reflex override; no motion action chosen by the   *)
(* policy is sent during the wait; and the wait always ends, by a reply,   *)
(* the timeout or the cancellation.                                        *)
(***************************************************************************)
C27_SuspendedWhileListening ==
    /\ [](/\ conversation = "waiting" =>
                \/ last_sent = Sent("ASK", "policy", FALSE)
                \/ last_sent.origin = "reflex" /\ last_sent.listening
          /\ (last_sent.listening /\ last_sent.origin = "policy") =>
                last_sent.action \notin MotionActions)
    /\ (conversation = "waiting" ~>
            conversation \in {"reply", "timeout", "cancelled"})

\* the policy has moved on to FORWARD_SLOW while the response is still
\* awaited, and the last thing sent is the question
C27_Witness ==
    /\ conversation = "waiting"
    /\ loop_decision.action = "FORWARD_SLOW"
    /\ last_sent = Sent("ASK", "policy", FALSE)
    /\ wait_left = 0

(***************************************************************************)
(* C28: whatever the interleaving of perception's update and push and the  *)
(* policy's Decision with the readers, get_latest returns the frame and    *)
(* the Observation of one and the same completed update, the most recent   *)
(* one; a RingBuffer entry read has its timestamp, frame and summary from  *)
(* one push; and a telemetry payload carries the Observation of the most   *)
(* recent completed update together with a Decision that the policy had    *)
(* set by then.                                                            *)
(***************************************************************************)
C28_CompleteReads ==
    /\ got # NothingRead =>
          /\ got.frame = got.observation
          /\ got.observation = got.committed
    /\ read_entry # NothingRead =>
          /\ read_entry.entry.timestamp = read_entry.pushed
          /\ read_entry.entry.jpeg_bytes = read_entry.pushed
          /\ ConfidenceOf(read_entry.entry) = read_entry.pushed
    /\ telemetry # NothingRead =>
          /\ telemetry.observation = telemetry.obs_committed
          /\ telemetry.decision <= shared_decision
          /\ telemetry.observation <= obs_commits

\* an update is half done (new frame stored, Observation still the old
\* one) while a reader holds the complete pair of the first update and
\* telemetry has posted that Observation with the first Decision
C28_Witness ==
    /\ perception_pc = "updating"
    /\ fs_frame = 2
    /\ fs_obs = 1
    /\ got # NothingRead
    /\ got.frame = 1
    /\ got.observation = 1
    /\ telemetry # NothingRead
    /\ telemetry.observation = 1
    /\ telemetry.decision = 1
    /\ read_entry # NothingRead

\* the fields of MissionContext that hold a value
Written(c) == { f \in Fields : c[f] # 0 }

(***************************************************************************)
(* C29: never more than one phase handler is running, and a step changes   *)
(* MissionContext only if it is the return of the running handler, whose   *)
(* logged outputs are exactly what is merged; the ticks of the perception, *)
(* audio, policy, actuation and telemetry tasks leave MissionContext, the  *)
(* phase log and the phase index as they are.                              *)
(***************************************************************************)
C29_OneHandlerOneWriter ==
    /\ [](handlers_running <= 1)
    /\ [][ /\ ctx' # ctx =>
                /\ handlers_running = 1
                /\ handlers_running' = 0
                /\ Len(phase_log') = Len(phase_log) + 1
                /\ Written(ctx') \ Written(ctx) \subseteq
                      phase_log'[Len(phase_log')].outputs
           /\ << loopVars, storeVars >>' # << loopVars, storeVars >> =>
                << ctx, phase_log, current_phase_index, handlers_running >>' =
                << ctx, phase_log, current_phase_index, handlers_running >> ]_vars

\* the handler of APPROACH_CONFIRM is running on the outputs of the two
\* phases before it while the policy is assessing and a question went out
C29_Witness ==
    /\ handlers_running = 1
    /\ current_phase_index = 3
    /\ Written(ctx) = {"deploy_status", "person_detected", "person_confidence"}
    /\ policy_mode = "ASSESS"
    /\ last_sent.action = "ASK"
    /\ telemetry # NothingRead

\* a handler returns in this step
HandlerReturns == handlers_running' < handlers_running

\* the newest phase_log entry after the step
NewEntry == phase_log'[Len(phase_log')]

RunFairness == WF_vars(Next)

FairSpec == Init /\ [][Next]_vars /\ RunFairness

\* max_attempts of every phase of the list
Budgets == [i \in 1..NumPhases |-> phases[i].retry_policy.max_attempts]

TotalBudget == SumUpTo(Budgets, NumPhases)

\* loop iterations still possible: for each phase not yet left, its attempts
\* and the step that leaves it
RemainingSteps ==
    IF engine # "running" THEN 0
    ELSE SumUpTo([i \in 1..NumPhases |->
                     IF i < current_phase_index THEN 0 ELSE Budgets[i] + 1],
                 NumPhases) - attempt

\* the phase at which the loop stopped
StoppedAt(i) ==
    /\ current_phase_index = i
    /\ ~ProceedsAfterExhaustion(phases[i].retry_policy)
    /\ phase_status[i] = phases[i].retry_policy.fallback_status
    /\ attempts_total[i] = Budgets[i]
    /\ \A j \in 1..NumPhases :
          /\ j < i => phase_status[j] \in {"SUCCESS", "DEGRADED", "SKIPPED"}
          /\ j > i => phase_status[j] = "PENDING" /\ attempts_total[j] = 0

(***************************************************************************)
(* C36: PipelineRunner.run always terminates.  Whatever the handlers       *)
(* return or raise, every loop step lowers the number of steps still       *)
(* possible, the attempts made never exceed the sum of the phases'         *)
(* max_attempts, and the run ends: either done, past the last phase, or    *)
(* halted at the first phase that used up its attempts under a policy      *)
(* that stops the loop (ABORT), with no later phase attempted.             *)
(***************************************************************************)
C36_RunTerminates ==
    /\ <>(engine # "running")
    /\ [][RemainingSteps' < RemainingSteps]_vars
    /\ [](/\ RemainingSteps >= 0
          /\ SumUpTo(attempts_total, NumPhases) <= TotalBudget
          /\ Len(phase_log) <= TotalBudget + NumPhases
          /\ engine \in {"running", "done", "halted"}
          /\ engine = "done" =>
                /\ current_phase_index = NumPhases + 1
                /\ \A i \in 1..NumPhases :
                      phase_status[i] \in {"SUCCESS", "DEGRADED", "SKIPPED"}
          /\ engine = "halted" =>
                \E i \in 1..NumPhases : StoppedAt(i))

\* the seven-phase run used every attempt of its budget up to the phase
\* that aborted: two for DEPLOY, five for SEARCH_HAIL
C36_Witness ==
    /\ phases = PIPELINE_PHASES
    /\ force_phase = 0
    /\ engine = "halted"
    /\ StoppedAt(2)
    /\ attempts_total[1] = 2
    /\ attempts_total[2] = 5
    /\ phase_status[2] = "ABORT"
    /\ RemainingSteps = 0

\* the step appends an entry to phase_log
Logged == Len(phase_log') = Len(phase_log) + 1

\* the step is the last attempt of its phase
LastAttempt == attempt + 1 = CurrentPhase.retry_policy.max_attempts

(***************************************************************************)
(* C37: an attempt that does not end in SUCCESS (RETRY or another status   *)
(* returned, a precondition failure, an exception, a timeout) leaves       *)
(* MissionContext as it was, whatever outputs its result carried; ctx      *)
(* changes only in the step that leaves a phase, by the merge of the       *)
(* logged outputs of a SUCCESS or of the last attempt of an allow_degraded *)
(* phase.                                                                  *)
(***************************************************************************)
C37_FailedAttemptFrame ==
    [][ LET merges == \/ NewEntry.status = "SUCCESS"
                      \/ /\ LastAttempt
                         /\ CurrentPhase.retry_policy.allow_degraded
        IN  /\ (Logged /\ ~merges) => ctx' = ctx
            /\ (Logged /\ NewEntry.status # "SKIPPED" /\ merges) =>
                  /\ ctx' = MergeOutputs(ctx, NewEntry.outputs,
                                         current_phase_index)
                  /\ current_phase_index' = current_phase_index + 1
            /\ ctx' # ctx => Logged /\ NewEntry.status # "SKIPPED" /\ merges
      ]_vars

\* TRIAGE_DIALOG_SCAN returned RETRY with partial triage_answers on its
\* first attempt: the entry is logged, ctx has no triage_answers
C37_Witness ==
    /\ phases = PIPELINE_PHASES
    /\ current_phase_index = 5
    /\ attempt = 1
    /\ phase_log[Len(phase_log)].status = "RETRY"
    /\ phase_log[Len(phase_log)].outputs = {"triage_answers"}
    /\ ctx["triage_answers"] = 0

(***************************************************************************)
(* Resume from a snapshot: the first run is stopped, a second run is       *)
(* started with the restored MissionContext and --force_phase              *)
(***************************************************************************)
\* the failure modes of the handlers in the runs that are resumed: results
\* that carry partial outputs in one run, raised exceptions in another
ResumeFaults ==
    { {[kind |-> "result", status |-> "RETRY", partial |-> TRUE]},
      {[kind |-> "exception", status |-> "NONE", partial |-> FALSE]} }

ResumeInit ==
    /\ phases = PIPELINE_PHASES
    /\ force_phase = 0
    /\ handler_faults \in ResumeFaults
    /\ ctx = EmptyContext
    /\ phase_log = << >>
    /\ current_phase_index = 1
    /\ attempt = 0
    /\ phase_status = [i \in 1..Len(phases) |-> "PENDING"]
    /\ handler_calls = [i \in 1..Len(phases) |-> 0]
    /\ attempts_total = [i \in 1..Len(phases) |-> 0]
    /\ engine = "running"
    /\ clock = 0
    /\ AgentStart
    /\ RingStart(DefaultRingConfig)
    /\ SearchStart(SilentField)
    /\ OrchestratorStart

\* the first run ends, at mission end or stopped on demand, and its
\* MissionContext is written to context_snapshot.json
WriteSnapshot ==
    /\ run_no = 1
    /\ ~snapshot.written
    /\ snapshot' = Serialize(ctx, phase_status)
    /\ engine' = IF engine = "running" THEN "stopped" ELSE engine
    /\ UNCHANGED << phases, force_phase, handler_faults, ctx, phase_log,
                    current_phase_index, attempt, phase_status, handler_calls,
                    attempts_total, clock, run_no, agentVars, ringVars,
                    searchVars, executorVars, loopVars, storeVars,
                    missionVars, eventVars, centerVars >>

\* cli --force_phase X: a new run on the context loaded from the snapshot,
\* X chosen so as to skip completed phases
ResumeRun ==
    /\ run_no = 1
    /\ snapshot.written
    /\ \E target \in 2..NumPhases :
          /\ \A i \in 1..(target - 1) : snapshot.status[i] = "SUCCESS"
          /\ force_phase' = target
    /\ run_no' = 2
    /\ ctx' = Restore(snapshot)
    /\ phase_log' = << >>
    /\ current_phase_index' = 1
    /\ attempt' = 0
    /\ phase_status' = [i \in 1..NumPhases |-> "PENDING"]
    /\ handler_calls' = [i \in 1..NumPhases |-> 0]
    /\ attempts_total' = [i \in 1..NumPhases |-> 0]
    /\ engine' = "running"
    /\ clock' = 0
    /\ UNCHANGED << phases, handler_faults, snapshot, agentVars, ringVars,
                    searchVars, executorVars, loopVars, storeVars,
                    missionVars, eventVars, centerVars >>

ResumeNext ==
    \/ SkipPhase
    \/ PreconditionFailure
    \/ HandlerSuccess
    \/ HandlerFailure
    \/ HandlerException
    \/ WriteSnapshot
    \/ ResumeRun

ResumeSpec == ResumeInit /\ [][ResumeNext]_vars

\* the phases the snapshot has as SUCCESS
SucceededBefore == { i \in 1..NumPhases : snapshot.status[i] = "SUCCESS" }

\* the run was resumed at a phase up to which every phase had succeeded
ResumedAtCompleted ==
    /\ run_no = 2
    /\ \A i \in 1..NumPhases : i < force_phase => i \in SucceededBefore

SkippedPhases == { i \in 1..NumPhases : phase_status[i] = "SKIPPED" }

LouderOnly(i, j) ==
    /\ sweep[i].rms_energy < sweep[j].rms_energy
    /\ sweep[i].voice_activity_score = sweep[j].voice_activity_score

MoreVoiceOnly(i, j) ==
    /\ sweep[i].voice_activity_score < sweep[j].voice_activity_score
    /\ sweep[i].rms_energy = sweep[j].rms_energy

(***************************************************************************)
(* C33: of two scored windows of a sweep, the one with the higher          *)
(* rms_energy at equal voice_activity_score, or with the higher            *)
(* voice_activity_score at equal rms_energy, has the strictly larger       *)
(* composite score.                                                        *)
(***************************************************************************)
C33_StrictlyIncreasing ==
    \A i, j \in 1..Len(sweep) :
        (LouderOnly(i, j) \/ MoreVoiceOnly(i, j))
            => sweep[i].composite_score < sweep[j].composite_score

\* a sweep with a pair of windows that differ in loudness only and a pair
\* that differ in voice activity only
C33_Witness ==
    /\ Len(sweep) = CoarseHeadings
    /\ \E i, j \in 1..Len(sweep) : LouderOnly(i, j)
    /\ \E i, j \in 1..Len(sweep) : MoreVoiceOnly(i, j)

(***************************************************************************)
(* Events: perception_task pushes frames and emits FOUND_PERSON, the other *)
(* tasks emit their events, each persisting keyframes                      *)
(***************************************************************************)
MaxEvents == 2

EventInit ==
    /\ PipelineIdle
    /\ AgentStart
    /\ RingStart(SmallRingConfig)
    /\ SearchStart(SilentField)
    /\ ExecutorStart
    /\ LoopStart
    /\ StoreStart
    /\ MissionStart(TRUE, TRUE)
    /\ ResumeStart
    /\ CenterStart
    /\ \E k \in KeyframeCounts, strategy \in Strategies :
          EventStart(k, strategy)

\* frames arrive at the sample period, or after a pause longer than the
\* buffer holds
EventGaps == {SamplePeriod(SmallRingConfig), 7}

\* events emitted by the tasks other than perception_task
OtherEvents == {"HEARD_RESPONSE", "OPERATOR_REQUEST"}

EventsSoFar ==
    events_emitted["HEARD_RESPONSE"] + events_emitted["OPERATOR_REQUEST"]

\* perception_task, one frame: push to the RingBuffer, emit FOUND_PERSON
\* when this is the first confident person
PerceptionFrame ==
    \E gap \in EventGaps, conf \in Confidences :
        /\ PushFrame(gap, conf)
        /\ confident_frames' =
              IF conf >= PersonConfidence THEN confident_frames + 1
                                          ELSE confident_frames
        /\ IF FirstConfident(conf, found_person_emitted)
           THEN /\ found_person_emitted' = TRUE
                /\ events_emitted' =
                      [events_emitted EXCEPT !["FOUND_PERSON"] = @ + 1]
                /\ last_event' =
                      Emitted("FOUND_PERSON",
                              get_window(ring_buffer', ring_now',
                                         KeyframeWindowSeconds),
                              event_k, event_strategy)
           ELSE UNCHANGED << found_person_emitted, events_emitted,
                             last_event >>
        /\ UNCHANGED << ring_config, last_read, event_k, event_strategy,
                        pipelineVars, agentVars, searchVars, executorVars,
                        loopVars, storeVars, missionVars, resumeVars, centerVars >>

\* audio_task or the operator message loop emits an event
EmitEvent ==
    \E event_type \in OtherEvents :
        /\ EventsSoFar < MaxEvents
        /\ events_emitted' = [events_emitted EXCEPT ![event_type] = @ + 1]
        /\ last_event' =
              Emitted(event_type,
                      get_window(ring_buffer, ring_now, KeyframeWindowSeconds),
                      event_k, event_strategy)
        /\ UNCHANGED << event_k, event_strategy, found_person_emitted,
                        confident_frames, coreVars, executorVars, loopVars,
                        storeVars, missionVars, resumeVars, centerVars >>

EventNext ==
    \/ PerceptionFrame
    \/ EmitEvent

EventSpec == EventInit /\ [][EventNext]_vars

\* an event is emitted in this step
EventIsEmitted == events_emitted' # events_emitted

(***************************************************************************)
(* C32: an emitted event saves at most k keyframes, k being the configured *)
(* number per event and at most 5; every saved keyframe is an entry of the *)
(* RingBuffer window of the last 10 s at the moment of the emit; when      *)
(* get_keyframes raises nothing is saved.                                  *)
(***************************************************************************)
C32_KeyframesPerEvent ==
    [][ EventIsEmitted =>
          LET window == get_window(ring_buffer', ring_now',
                                   KeyframeWindowSeconds)
              e == last_event'
          IN  /\ e.k = event_k
              /\ e.k <= MaxKeyframesPerEvent
              /\ Len(e.saved) <= e.k
              /\ \A i \in 1..Len(e.saved) :
                    \E j \in 1..Len(window) : e.saved[i] = window[j]
              /\ \A i \in 1..Len(e.saved) :
                    \E j \in 1..Len(ring_buffer') : e.saved[i] = ring_buffer'[j]
              /\ e.raised # "none" => e.saved = << >>
      ]_vars

\* an event saved three keyframes of a full buffer from which the first
\* frame had been dropped
C32_Witness ==
    /\ last_event # NoEvent
    /\ last_event.event_type = "HEARD_RESPONSE"
    /\ last_event.k = DefaultKeyframes
    /\ Len(last_event.saved) = DefaultKeyframes
    /\ Len(ring_buffer) = MaxEntries(ring_config)
    /\ ring_pushes > MaxEntries(ring_config)
    /\ \A i \in 1..Len(last_event.saved) : last_event.saved[i].jpeg_bytes > 1

(***************************************************************************)
(* C35: FOUND_PERSON is emitted at most once in a run: it is emitted in    *)
(* the perception tick of the first frame with a confident person          *)
(* detection, and no later confident frame emits it again.                 *)
(***************************************************************************)
C35_FoundPersonOnce ==
    /\ [](/\ events_emitted["FOUND_PERSON"] <= 1
          /\ events_emitted["FOUND_PERSON"] =
                (IF confident_frames > 0 THEN 1 ELSE 0)
          /\ found_person_emitted = (events_emitted["FOUND_PERSON"] = 1))
    /\ [][ events_emitted'["FOUND_PERSON"] # events_emitted["FOUND_PERSON"] =>
              /\ confident_frames = 0
              /\ confident_frames' = 1
              /\ ring_pushes' = ring_pushes + 1
              /\ ring_buffer'[Len(ring_buffer')].observation_summary.confidence
                    >= PersonConfidence
              /\ last_event'.event_type = "FOUND_PERSON" ]_vars

\* three confident frames were seen and FOUND_PERSON was emitted for the
\* first one only
C35_Witness ==
    /\ confident_frames = 3
    /\ events_emitted["FOUND_PERSON"] = 1
    /\ found_person_emitted

\* ---------------------------------------------------------------------
\* Operator message -> robot TTS
\* ---------------------------------------------------------------------

MaxOperatorMessages == 3

QueueInit ==
    /\ PipelineIdle
    /\ AgentStart
    /\ RingStart(SmallRingConfig)
    /\ SearchStart(SilentField)
    /\ ExecutorStart
    /\ LoopStart
    /\ StoreStart
    /\ MissionStart(TRUE, TRUE)
    /\ ServiceStart

\* webapp: POST /operator-message { text }; the server appends to the
\* operator queue
PostOperatorMessage ==
    \E text \in OperatorTexts :
        /\ next_index < MaxOperatorMessages
        /\ operator_messages' =
              Append(operator_messages, OperatorMessage(text, next_index))
        /\ next_index' = next_index + 1
        /\ op_late' = IF op_pc \in {"speak", "ack"}
                      THEN op_late \cup {next_index}
                      ELSE op_late
        /\ UNCHANGED << op_pc, op_pending, op_after_index, op_spoken,
                        coreVars, executorVars, loopVars, storeVars,
                        missionVars, resumeVars, eventVars, pageVars >>

\* _operator_message_loop: messages = GET /operator-messages
GetOperatorMessages ==
    /\ op_pc = "poll"
    /\ op_pending' = operator_messages
    /\ op_pc' = IF operator_messages = << >> THEN "poll" ELSE "speak"
    /\ UNCHANGED << operator_messages, next_index, op_after_index,
                    op_spoken, op_late, coreVars, executorVars, loopVars,
                    storeVars, missionVars, resumeVars, eventVars,
                    pageVars >>

\* _operator_message_loop: audio_io.speak(msg["text"]), one message
SpeakOperatorMessage ==
    /\ op_pc = "speak"
    /\ op_spoken' = Append(op_spoken, Head(op_pending).index)
    /\ op_after_index' = Head(op_pending).index
    /\ op_pending' = Tail(op_pending)
    /\ op_pc' = IF Tail(op_pending) = << >> THEN "ack" ELSE "speak"
    /\ UNCHANGED << operator_messages, next_index, op_late, coreVars,
                    executorVars, loopVars, storeVars, missionVars,
                    resumeVars, eventVars, pageVars >>

\* _operator_message_loop: POST /operator-messages/ack { after_index }
AckOperatorMessages ==
    /\ op_pc = "ack"
    /\ operator_messages' = AckCleared(operator_messages, op_after_index)
    /\ op_pc' = "poll"
    /\ UNCHANGED << next_index, op_pending, op_after_index, op_spoken,
                    op_late, coreVars, executorVars, loopVars, storeVars,
                    missionVars, resumeVars, eventVars, pageVars >>

QueueNext ==
    \/ PostOperatorMessage
    \/ GetOperatorMessages
    \/ SpeakOperatorMessage
    \/ AckOperatorMessages

\* the operator loop is an asyncio task that polls every 5 s for as long
\* as the agent runs
OperatorLoopFairness ==
    /\ WF_vars(GetOperatorMessages)
    /\ WF_vars(SpeakOperatorMessage)
    /\ WF_vars(AckOperatorMessages)

QueueSpec == QueueInit /\ [][QueueNext]_vars /\ OperatorLoopFairness

SpokenIndices == {op_spoken[i] : i \in 1..Len(op_spoken)}

MaxSends == 2
MaxReports == 2
MaxInFlight == 2

PageInit ==
    /\ PipelineIdle
    /\ AgentStart
    /\ RingStart(SmallRingConfig)
    /\ SearchStart(SilentField)
    /\ ExecutorStart
    /\ LoopStart
    /\ StoreStart
    /\ MissionStart(TRUE, TRUE)
    /\ ServiceStart

pageFrame == << coreVars, executorVars, loopVars, storeVars, missionVars,
               resumeVars, eventVars, queueVars >>

\* orchestrator: POST /report; /latest returns it from then on
ReportPosted ==
    /\ server_report < MaxReports
    /\ server_report' = server_report + 1
    /\ UNCHANGED << server_comms, in_flight, latest, lastReport,
                    optimisticMsgs, loading, post, sends, pageFrame >>

\* tick: fetchLatest() is served by the command center, or throws
FetchLatest ==
    /\ BagCardinality(in_flight) < MaxInFlight
    /\ \E data \in {LatestResponse(server_report, server_comms), NoLatest} :
          in_flight' = in_flight (+) One(data)
    /\ UNCHANGED << server_comms, server_report, latest, lastReport,
                    optimisticMsgs, loading, post, sends, pageFrame >>

\* tick: the awaited fetchLatest() settles; the try block or the catch
TickSettles ==
    \E data \in BagToSet(in_flight) :
        /\ in_flight' = in_flight (-) One(data)
        /\ IF data.ok
           THEN /\ latest' = data
                /\ lastReport' = NextLastReport(lastReport, data)
                /\ optimisticMsgs' = Reconciled(optimisticMsgs, data)
           ELSE /\ latest' = NoLatest
                /\ UNCHANGED << lastReport, optimisticMsgs >>
        /\ UNCHANGED << server_comms, server_report, loading, post, sends,
                        pageFrame >>

\* Chat send or quick reply, then handleSend up to the await
handleSend ==
    \E text \in QuickReplies :
        /\ ~loading
        /\ sends < MaxSends
        /\ sends' = sends + 1
        /\ loading' = TRUE
        /\ optimisticMsgs' =
              Append(optimisticMsgs, CommsMessage("op", text, sends + 1))
        /\ post' = [state |-> "sent", text |-> text, send |-> sends + 1]
        /\ UNCHANGED << server_comms, server_report, in_flight, latest,
                        lastReport, pageFrame >>

\* command center: POST /operator-message appends to _comms
OperatorMessageReceived ==
    /\ post.state = "sent"
    /\ server_comms' =
          Append(server_comms, CommsEntry("operator", post.text, post.send))
    /\ post' = [post EXCEPT !.state = "served"]
    /\ UNCHANGED << server_report, in_flight, latest, lastReport,
                    optimisticMsgs, loading, sends, pageFrame >>

\* handleSend: postOperatorMessage resolved; finally
PostResolved ==
    /\ post.state = "served"
    /\ post' = NoPost
    /\ loading' = FALSE
    /\ UNCHANGED << server_comms, server_report, in_flight, latest,
                    lastReport, optimisticMsgs, sends, pageFrame >>

\* handleSend: postOperatorMessage threw; catch and finally
PostFailed ==
    /\ post.state = "sent"
    /\ optimisticMsgs' = SendFailed(optimisticMsgs, post.text, post.send)
    /\ post' = NoPost
    /\ loading' = FALSE
    /\ UNCHANGED << server_comms, server_report, in_flight, latest,
                    lastReport, sends, pageFrame >>

PageNext ==
    \/ ReportPosted
    \/ FetchLatest
    \/ TickSettles
    \/ handleSend
    \/ OperatorMessageReceived
    \/ PostResolved
    \/ PostFailed

PageSpec == PageInit /\ [][PageNext]_vars

\* the tick that settles in this step got this response
Settled(data) ==
    /\ BagIn(data, in_flight)
    /\ in_flight' = in_flight (-) One(data)

\* C38: once a report is displayed, a report stays displayed; the
\* displayed report changes only in a tick whose response carries a
\* report, to that report; a tick whose fetch failed or whose response
\* has no report leaves it
C38_ReportNeverCleared ==
    /\ [][DisplayedReport # NoReport => DisplayedReport' # NoReport]_vars
    /\ [][DisplayedReport' # DisplayedReport =>
              \E data \in BagToSet(in_flight) :
                  /\ Settled(data)
                  /\ data.ok
                  /\ data.report # NoReport
                  /\ DisplayedReport' = data.report]_vars

\* a report is displayed although the last tick had none: its fetch
\* failed, or its response was served before the report existed
C38_Witness ==
    /\ DisplayedReport # NoReport
    /\ latest.report = NoReport
    /\ in_flight = EmptyBag

ServerTexts(data) == {data.comms[i].text : i \in 1..Len(data.comms)}

\* optimistic entry m is dropped in this step
LeavesOptimistic(m) ==
    /\ \E i \in 1..Len(optimisticMsgs) : optimisticMsgs[i] = m
    /\ \A i \in 1..Len(optimisticMsgs') : optimisticMsgs'[i] # m

\* this step settles a tick whose response has a comms entry with the text
ReconciledByPoll(m) ==
    \E data \in BagToSet(in_flight) :
        /\ Settled(data)
        /\ data.ok
        /\ m.text \in ServerTexts(data)

\* this step is the catch of the message's own POST, and the "Send
\* failed" message is in the list afterwards
OwnPostFailed(m) ==
    /\ post.state = "sent"
    /\ post.send = m.send
    /\ post' = NoPost
    /\ \E i \in 1..Len(optimisticMsgs') :
          optimisticMsgs'[i] = CommsMessage("sys", "Send failed", m.send)

\* C39: a sent message is in the chat from the step that sends it; it
\* leaves the optimistic list only in a tick whose response has a comms
\* entry with the same text, or in the catch of its own POST, which puts
\* a "Send failed" message in the list; no sent message is in the chat
\* twice
C39_SentStaysUntilAccounted ==
    /\ [][sends' # sends =>
              \E text \in QuickReplies :
                  (CommsMessage("op", text, sends') \in
                      {msgs'[i] : i \in 1..Len(msgs')})]_vars
    /\ [][\A s \in 1..MaxSends, text \in QuickReplies :
              LET m == CommsMessage("op", text, s) IN
              LeavesOptimistic(m) => ReconciledByPoll(m) \/ OwnPostFailed(m)]_vars
    /\ [](\A i, j \in 1..Len(msgs) :
              (msgs[i].type = "op" /\ msgs[i].send = msgs[j].send
                   /\ msgs[j].type = "op") => i = j)

====
